---- MODULE Spec2Model ----
(***************************************************************************)
(* Model of the Nyne API client (client.ts: NyneClient), its configuration *)
(* resolution (config.ts: parseConfig) and the submit-then-poll pattern    *)
(* every job operation follows.                                            *)
(*                                                                         *)
(* Text is modelled as a sequence of one-character strings, so that        *)
(* serialisation, regular-expression replacement and truncation are        *)
(* computed character by character.                                        *)
(***************************************************************************)
EXTENDS Integers, Sequences, FiniteSets, TLC

VARIABLES pluginConfig, env, api, plugin, config, logger, call, command, tool

vars == <<pluginConfig, env, api, plugin, config, logger, call, command, tool>>

----------------------------------------------------------------------------
(* Bounds of the model *)

\* configured defaultPollTimeout values (seconds) are 0..MaxTimeoutSec, and LargeTimeoutSec
MaxTimeoutSec == 11
\* one configured timeout above the deep-research budget of 600 s
LargeTimeoutSec == 601
\* credentials are 1..MaxCredLen characters long
MaxCredLen == 2
\* response texts are 0..MaxTextLen characters long
MaxTextLen == 2
LongTextLen == 201
MaxConfigLen == 5

----------------------------------------------------------------------------
(* JavaScript values *)

\* the value `undefined` of a string-valued field
Undefined == "<undefined>"

\* a raw configuration value: undefined, a number, a string or a boolean
JsUndefined == [t |-> "undefined", n |-> 0]
JsNumber(n) == [t |-> "number", n |-> n]
JsString == [t |-> "string", n |-> 0]
JsBoolean(b) == [t |-> "boolean", n |-> IF b THEN 1 ELSE 0]

Min(a, b) == IF a <= b THEN a ELSE b

\* Math.ceil(a / b) for b > 0 (\div rounds towards minus infinity)
CeilDiv_floor(a, b) == a \div b
CeilDiv(a, b) == -((-a) \div b)

SeqsUpTo(S, n) == UNION {[1..k -> S] : k \in 0..n}

\* String.prototype.includes
Includes(hay, needle) ==
    \E i \in 1..(Len(hay) - Len(needle) + 1) :
        SubSeq(hay, i, i + Len(needle) - 1) = needle

----------------------------------------------------------------------------
(* Text: characters, regular expressions, JSON *)

\* characters a credential is made of: two ordinary characters (one of them
\* occurs in the redaction marker) and one the regular-expression syntax
\* gives a meaning to ("$": end of input)
CredChars == {"a", "E", "$"}

\* characters of a response text: the credential characters and the quote,
\* which JSON.stringify escapes
TextChars == CredChars \cup {"\""}

Creds == SeqsUpTo(CredChars, MaxCredLen) \ {<<>>}
Texts == SeqsUpTo(TextChars, MaxTextLen)

\* a page longer than the excerpt an error keeps of it
LongText == [i \in 1..LongTextLen |-> IF i < LongTextLen THEN "a" ELSE "E"]
Pages == Texts \cup {LongText}

REDACTED == <<"[", "R", "E", "D", "A", "C", "T", "E", "D", "]">>

\* new RegExp(p).exec at position i of t, from the k-th character of the
\* pattern on: the position after the match, or 0 when there is none.
\* "$" asserts the end of the input; every other character matches itself.
RECURSIVE RegExpMatch(_, _, _, _)
RegExpMatch(p, k, t, i) ==
    IF k > Len(p) THEN i
    ELSE IF p[k] = "$"
         THEN IF i = Len(t) + 1 THEN RegExpMatch(p, k + 1, t, i) ELSE 0
         ELSE IF i <= Len(t) /\ t[i] = p[k]
              THEN RegExpMatch(p, k + 1, t, i + 1)
              ELSE 0

\* t.replace(new RegExp(p, "g"), r), scanning from position i: every match
\* is replaced; after an empty match the scan moves on by one character.
RECURSIVE ReplaceFrom(_, _, _, _)
ReplaceFrom(t, p, r, i) ==
    IF i > Len(t) + 1 THEN <<>>
    ELSE LET e == RegExpMatch(p, 1, t, i)
             here == IF i <= Len(t) THEN <<t[i]>> ELSE <<>>
         IN  IF e = 0 THEN here \o ReplaceFrom(t, p, r, i + 1)
             ELSE IF e = i THEN r \o here \o ReplaceFrom(t, p, r, i + 1)
             ELSE r \o ReplaceFrom(t, p, r, e)

replace(t, p, r) == ReplaceFrom(t, p, r, 1)

\* the characters of the string values a response envelope carries
CharsOf(s) ==
    CASE s = "" -> <<>>
      [] s = "r1" -> <<"r", "1">>
      [] s = "r2" -> <<"r", "2">>
      [] s = "queued" -> <<"q", "u", "e", "u", "e", "d">>
      [] s = "processing" -> <<"p", "r", "o", "c", "e", "s", "s", "i", "n", "g">>
      [] s = "pending" -> <<"p", "e", "n", "d", "i", "n", "g">>
      [] s = "completed" -> <<"c", "o", "m", "p", "l", "e", "t", "e", "d">>
      [] s = "failed" -> <<"f", "a", "i", "l", "e", "d">>

\* JSON.stringify of a string: quoted, with quote and backslash escaped
RECURSIVE Escape(_)
Escape(t) ==
    IF t = <<>> THEN <<>>
    ELSE (IF Head(t) \in {"\"", "\\"} THEN <<"\\", Head(t)>> ELSE <<Head(t)>>)
         \o Escape(Tail(t))

Quoted(t) == <<"\"">> \o Escape(t) \o <<"\"">>

RECURSIVE Join(_, _)
Join(parts, sep) ==
    IF parts = <<>> THEN <<>>
    ELSE IF Len(parts) = 1 THEN parts[1]
    ELSE parts[1] \o sep \o Join(Tail(parts), sep)

Member(key, val) == Quoted(key) \o <<":">> \o val

Object(members) == <<"{">> \o Join(members, <<",">>) \o <<"}">>

(* A parsed response body: a mapping with an optional "data" mapping (holding *)
(* optional request_id and status strings) and an optional "error" string.    *)
Body(hasData, request_id, status, hasError, error) ==
    [hasData |-> hasData, request_id |-> request_id, status |-> status,
     hasError |-> hasError, error |-> error]

EmptyBody == Body(FALSE, Undefined, Undefined, FALSE, <<>>)

\* JSON.stringify(data)
JSONstringify(b) ==
    LET inner == (IF b.request_id = Undefined THEN <<>>
                  ELSE <<Member(<<"r", "e", "q", "u", "e", "s", "t", "_", "i", "d">>,
                                Quoted(CharsOf(b.request_id)))>>)
                 \o (IF b.status = Undefined THEN <<>>
                     ELSE <<Member(<<"s", "t", "a", "t", "u", "s">>,
                                   Quoted(CharsOf(b.status)))>>)
    IN  Object((IF b.hasData THEN <<Member(<<"d", "a", "t", "a">>, Object(inner))>>
                ELSE <<>>)
               \o (IF b.hasError THEN <<Member(<<"e", "r", "r", "o", "r">>, Quoted(b.error))>>
                   ELSE <<>>))


----------------------------------------------------------------------------
(* Configuration (config.ts) *)

DefaultPollTimeoutMs == 60000

PollTimeoutMs_seconds(raw) == IF raw.t = "number" THEN raw.n ELSE DefaultPollTimeoutMs

\* parseConfig, the defaultPollTimeout field: seconds to milliseconds
PollTimeoutMs(raw) == IF raw.t = "number" THEN raw.n * 1000 ELSE DefaultPollTimeoutMs

\* parseConfig, the debug field: cfg.debug === true
Debug(raw) == raw = JsBoolean(TRUE)

\* the configured values of debug
RawDebugs == {JsUndefined, JsBoolean(TRUE), JsBoolean(FALSE), JsString, JsNumber(1)}

\* a value that may be undefined (a key of the raw config, a variable of
\* process.env): has is FALSE for undefined, s is the string otherwise
Unset == [has |-> FALSE, s |-> <<>>]
Str(s) == [has |-> TRUE, s |-> s]

NYNE_API_KEY == <<"N", "Y", "N", "E", "_", "A", "P", "I", "_", "K", "E", "Y">>
NYNE_API_SECRET ==
    <<"N", "Y", "N", "E", "_", "A", "P", "I", "_", "S", "E", "C", "R", "E", "T">>

\* the class \w of the regular expression
WordChars ==
    {"A", "B", "C", "D", "E", "F", "G", "H", "I", "J", "K", "L", "M", "N", "O", "P",
     "Q", "R", "S", "T", "U", "V", "W", "X", "Y", "Z",
     "a", "b", "c", "d", "e", "f", "g", "h", "i", "j", "k", "l", "m", "n", "o", "p",
     "q", "r", "s", "t", "u", "v", "w", "x", "y", "z",
     "0", "1", "2", "3", "4", "5", "6", "7", "8", "9", "_"}

\* `${name}`
Placeholder(name) == <<"$", "{">> \o name \o <<"}">>

\* process.env[varName]
Lookup(environment, varName) ==
    IF varName \in DOMAIN environment THEN environment[varName] ELSE Unset

\* a ?? b
Coalesce(a, b) == IF a.has THEN a ELSE b

\* the end of the longest run of \w characters of value that starts at i
\* (i - 1 when there is none)
RECURSIVE WordRunEnd(_, _)
WordRunEnd(value, i) ==
    IF i <= Len(value) /\ value[i] \in WordChars THEN WordRunEnd(value, i + 1)
    ELSE i - 1

\* /\$\{(\w+)\}/ matches value at i: the position of its closing brace, 0 if
\* it does not match (\w+ is greedy and a brace is not in \w, so the run of
\* word characters has to be followed by the brace at once)
PlaceholderEnd(value, i) ==
    IF /\ i + 3 <= Len(value)
       /\ value[i] = "$" /\ value[i + 1] = "{"
       /\ WordRunEnd(value, i + 2) >= i + 2
       /\ WordRunEnd(value, i + 2) + 1 <= Len(value)
       /\ value[WordRunEnd(value, i + 2) + 1] = "}"
    THEN WordRunEnd(value, i + 2) + 1
    ELSE 0

\* value.replace(/\$\{(\w+)\}/g, (_match, varName) => process.env[varName] ?? "")
\* from position i on: the matches are taken from left to right, and what
\* replaces one is not scanned again
RECURSIVE ResolveFrom(_, _, _)
ResolveFrom(value, environment, i) ==
    IF i > Len(value) THEN <<>>
    ELSE LET close == PlaceholderEnd(value, i)
         IN  IF close = 0
             THEN <<value[i]>> \o ResolveFrom(value, environment, i + 1)
             ELSE Coalesce(Lookup(environment, SubSeq(value, i + 2, close - 1)),
                           Str(<<>>)).s
                  \o ResolveFrom(value, environment, close + 1)

resolveEnvVars_asWritten(value, environment) == value

resolveEnvVars(value, environment) == ResolveFrom(value, environment, 1)

NoConfig == [apiKey |-> <<>>, apiSecret |-> <<>>, debug |-> FALSE,
             defaultPollTimeout |-> 0]

\* resolveEnvVars(String(cfg.apiKey ?? process.env.NYNE_API_KEY ?? ""))
Credential(rawValue, environment, varName) ==
    resolveEnvVars(Coalesce(Coalesce(rawValue, Lookup(environment, varName)),
                            Str(<<>>)).s,
                   environment)

parseConfig_both(raw, environment) ==
    LET apiKey == Credential(raw.apiKey, environment, NYNE_API_KEY)
        apiSecret == Credential(raw.apiSecret, environment, NYNE_API_SECRET)
    IN  IF apiKey = <<>> /\ apiSecret = <<>>
        THEN [threw |-> TRUE, error |-> "MissingCredentials", value |-> NoConfig]
        ELSE [threw |-> FALSE, error |-> "none",
              value |-> [apiKey |-> apiKey, apiSecret |-> apiSecret,
                         debug |-> Debug(raw.debug),
                         defaultPollTimeout |-> PollTimeoutMs(raw.defaultPollTimeout)]]

\* parseConfig(raw): throws when a credential is empty
parseConfig(raw, environment) ==
    LET apiKey == Credential(raw.apiKey, environment, NYNE_API_KEY)
        apiSecret == Credential(raw.apiSecret, environment, NYNE_API_SECRET)
    IN  IF apiKey = <<>> \/ apiSecret = <<>>
        THEN [threw |-> TRUE, error |-> "MissingCredentials", value |-> NoConfig]
        ELSE [threw |-> FALSE, error |-> "none",
              value |-> [apiKey |-> apiKey, apiSecret |-> apiSecret,
                         debug |-> Debug(raw.debug),
                         defaultPollTimeout |-> PollTimeoutMs(raw.defaultPollTimeout)]]

hasConfig_always(raw, environment) == TRUE

\* register(api): the test of hasConfig
hasConfig(raw, environment) ==
    \/ raw.apiKey.has /\ raw.apiKey.s # <<>>
    \/ raw.apiSecret.has /\ raw.apiSecret.s # <<>>
    \/ \E varName \in {NYNE_API_KEY, NYNE_API_SECRET} :
          Lookup(environment, varName).has /\ Lookup(environment, varName).s # <<>>

CommandNames == {"enrich", "search", "lookup"}

ToolNames == {"nyne_enrich_person", "nyne_search_people", "nyne_person_interests",
              "nyne_article_search", "nyne_deep_research",
              "nyne_competitor_engagements", "nyne_interactions"}

\* what has been registered with the host: the CLI, the slash commands and
\* the handler they share, the tools, the services
NoApi == [cli |-> FALSE, commands |-> {}, handler |-> "none", tools |-> {},
          services |-> {}]

\* api.registerCli
registerCli(host) == [host EXCEPT !.cli = TRUE]

\* register(api), not configured: the three commands with notConfiguredHandler
PlaceholderCommands(host) ==
    [host EXCEPT !.commands = CommandNames, !.handler = "notConfiguredHandler"]

\* register(api), configured: the seven tools, registerCommands, registerService
ToolsCommandsService(host) ==
    [host EXCEPT !.tools = ToolNames, !.commands = CommandNames,
                 !.handler = "client", !.services = {"openclaw-nyne"}]

\* the plugin after register(api)
Loaded == [state |-> "loaded", error |-> "none"]
NotConfigured == [state |-> "notConfigured", error |-> "none"]
Ready == [state |-> "ready", error |-> "none"]
RegisterFailed(error) == [state |-> "failed", error |-> error]

\* api.pluginConfig, or the object a caller passes to parseConfig
RawConfig(apiKey, apiSecret, debug, defaultPollTimeout) ==
    [apiKey |-> apiKey, apiSecret |-> apiSecret, debug |-> debug,
     defaultPollTimeout |-> defaultPollTimeout]

\* the object the smoke test passes to parseConfig
TestConfig(environment) ==
    RawConfig(Lookup(environment, NYNE_API_KEY), Lookup(environment, NYNE_API_SECRET),
              JsBoolean(TRUE), JsUndefined)

\* logger.ts: the sink in use, the gate of the debug level, and the calls
\* made to each level of the sink
DefaultLogger ==
    [sink |-> "console", debugEnabled |-> FALSE,
     info |-> 0, warn |-> 0, error |-> 0, debug |-> 0]

initLogger(lg, sink, debug) == [lg EXCEPT !.sink = sink, !.debugEnabled = debug]

\* log.info, log.warn, log.error
LogInfo(lg) == [lg EXCEPT !.info = @ + 1]
LogWarn(lg) == [lg EXCEPT !.warn = @ + 1]
LogError(lg) == [lg EXCEPT !.error = @ + 1]

LogDebug_ungated(lg, n) == [lg EXCEPT !.debug = @ + n]

\* n calls of log.debug, log.debugRequest or log.debugResponse
LogDebug(lg, n) == IF lg.debugEnabled THEN [lg EXCEPT !.debug = @ + n] ELSE lg

\* new NyneClient(cfg): the constructor logs at the info level
NewClient(lg) == LogInfo(lg)

\* an environment with none of the variables set
NoEnv == [varName \in {NYNE_API_KEY, NYNE_API_SECRET} |-> Unset]

\* the configured seconds: parseConfig accepts any number, the documented range
\* is 10..300; the model takes the whole seconds from 0 on
TimeoutSecs == (0..MaxTimeoutSec) \cup {LargeTimeoutSec}

RawTimeouts == {JsUndefined, JsString} \cup {JsNumber(n) : n \in TimeoutSecs}

----------------------------------------------------------------------------
(* Transport (NyneClient.request) *)

HttpStatuses == {200, 500}

ResponseOk_always(response) == TRUE

\* Response.ok
ResponseOk(response) == response.status \in 200..299

ContentTypes == {"application/json", "text/html", Undefined}

\* contentType?.includes("application/json")
IsJson(contentType) == contentType \in {"application/json"}

ExcerptLen == 200

NoError == [type |-> "none", status |-> 0, text |-> <<>>, kind |-> "none",
            requestId |-> Undefined]

\* Error(`API returned non-JSON response (${status}): ${text.substring(0, 200)}`)
NonJsonError(status, text) ==
    [NoError EXCEPT !.type = "NonJsonResponse", !.status = status,
                    !.text = SubSeq(text, 1, Min(ExcerptLen, Len(text)))]

\* the two replace calls on the serialised body
Redact(cfg, errorMsg) ==
    replace(replace(errorMsg, cfg.apiKey, REDACTED), cfg.apiSecret, REDACTED)

\* Error(`API Error (${status}): ${errorMsg}`)
ApiError(cfg, status, data) ==
    [NoError EXCEPT !.type = "ApiError", !.status = status,
                    !.text = Redact(cfg, JSONstringify(data))]

\* fetch rejected: no response at all
NetworkError == [NoError EXCEPT !.type = "NetworkError"]

Return(value) == [threw |-> FALSE, value |-> value, error |-> NoError]
Throw(error) == [threw |-> TRUE, value |-> EmptyBody, error |-> error]

request_statusFirst(cfg, response) ==
    IF ~ResponseOk(response)
    THEN Throw(ApiError(cfg, response.status, response.body))
    ELSE IF ~IsJson(response.contentType)
         THEN Throw(NonJsonError(response.status, response.text))
         ELSE Return(response.body)

\* request(), from the arrival of the response on
request(cfg, response) ==
    IF ~IsJson(response.contentType)
    THEN Throw(NonJsonError(response.status, response.text))
    ELSE IF ~ResponseOk(response)
         THEN Throw(ApiError(cfg, response.status, response.body))
         ELSE Return(response.body)

----------------------------------------------------------------------------
(* The responses the remote API may give *)

RequestIds == {"r1", "r2"}

\* what a submission answers with
SubmitIds == RequestIds \cup {Undefined, ""}
SubmitStatuses == {Undefined, "queued", "completed"}

\* what a status read answers with
PollStatuses == {Undefined, "", "queued", "processing", "pending", "completed", "failed"}

\* what the usage read answers with
UsageStatuses == {Undefined, "completed", "processing"}
UsageIds == {Undefined, "r1"}

\* the envelopes {data: {request_id, status}} with the given field values, and {}
Envelopes(ids, statuses) ==
    {EmptyBody} \cup {Body(TRUE, r, s, FALSE, <<>>) : r \in ids, s \in statuses}

ErrorBodies(texts) == {Body(FALSE, Undefined, Undefined, TRUE, t) : t \in texts}

\* ids, statuses: the request_id and status values the API may put in an
\* envelope; texts: the texts it may put in an error body; pages: the
\* bodies it may send under another content type
Responses(ids, statuses, texts, pages) ==
    {[status |-> 200, contentType |-> "application/json", body |-> b, text |-> <<>>] :
        b \in Envelopes(ids, statuses) \cup ErrorBodies(texts)}
    \cup {[status |-> 500, contentType |-> "application/json", body |-> b, text |-> <<>>] :
        b \in {EmptyBody} \cup ErrorBodies(texts)}
    \cup {[status |-> st, contentType |-> ct, body |-> EmptyBody, text |-> t] :
        st \in HttpStatuses, ct \in ContentTypes \ {"application/json"}, t \in pages}


----------------------------------------------------------------------------
(* Operation facade and Poller (NyneClient) *)

JobOps == {"searchPeople", "enrichPerson", "getPersonInterests", "searchArticles",
           "deepResearch", "competitorEngagements", "getInteractions"}

Ops == JobOps \cup {"getUsage"}

Kinds == {"search", "enrichment", "interests", "articlesearch", "deep-research",
          "competitor-engagements", "interactions"}

\* the path each facade method posts to
PostEndpoint(op) ==
    CASE op = "searchPeople" -> "/person/search"
      [] op = "enrichPerson" -> "/person/enrichment"
      [] op = "getPersonInterests" -> "/person/interests"
      [] op = "searchArticles" -> "/person/articlesearch"
      [] op = "deepResearch" -> "/person/deep-research"
      [] op = "competitorEngagements" -> "/person/competitor-engagements"
      [] op = "getInteractions" -> "/person/interactions"

KindOf_copied(op) ==
    CASE op = "searchPeople" -> "search"
      [] op = "enrichPerson" -> "enrichment"
      [] op = "getPersonInterests" -> "interests"
      [] op = "searchArticles" -> "search"
      [] op = "deepResearch" -> "deep-research"
      [] op = "competitorEngagements" -> "competitor-engagements"
      [] op = "getInteractions" -> "interactions"

\* the kind each facade method passes to waitForResult
KindOf(op) ==
    CASE op = "searchPeople" -> "search"
      [] op = "enrichPerson" -> "enrichment"
      [] op = "getPersonInterests" -> "interests"
      [] op = "searchArticles" -> "articlesearch"
      [] op = "deepResearch" -> "deep-research"
      [] op = "competitorEngagements" -> "competitor-engagements"
      [] op = "getInteractions" -> "interactions"

endpointMap(kind) ==
    CASE kind = "search" -> "/person/search"
      [] kind = "enrichment" -> "/person/enrichment"
      [] kind = "interests" -> "/person/interests"
      [] kind = "articlesearch" -> "/person/articlesearch"
      [] kind = "deep-research" -> "/person/deep-research"
      [] kind = "competitor-engagements" -> "/person/competitor-engagements"
      [] kind = "interactions" -> "/person/interactions"

DefaultIntervalMs == 2000
DeepResearchIntervalMs == 5000
DeepResearchMaxAttempts == 120

\* the optional third argument of waitForResult
NoOptions == [hasIntervalMs |-> FALSE, intervalMs |-> 0,
              hasMaxAttempts |-> FALSE, maxAttempts |-> 0]

PollOptions_none(op) == NoOptions

\* the options each facade method passes to waitForResult
PollOptions(op) ==
    IF op = "deepResearch"
    THEN [hasIntervalMs |-> TRUE, intervalMs |-> DeepResearchIntervalMs,
          hasMaxAttempts |-> TRUE, maxAttempts |-> DeepResearchMaxAttempts]
    ELSE NoOptions

\* options?.intervalMs ?? 2000
IntervalOf(options) ==
    IF options.hasIntervalMs THEN options.intervalMs ELSE DefaultIntervalMs

MaxAttemptsOf_floor(cfg, options) ==
    IF options.hasMaxAttempts THEN options.maxAttempts
    ELSE CeilDiv_floor(cfg.defaultPollTimeout, IntervalOf(options))

\* options?.maxAttempts ?? Math.ceil(this.config.defaultPollTimeout / intervalMs)
MaxAttemptsOf(cfg, options) ==
    IF options.hasMaxAttempts THEN options.maxAttempts
    ELSE CeilDiv(cfg.defaultPollTimeout, IntervalOf(options))

\* a string in a condition: undefined and "" are falsy
Truthy(s) == s \notin {Undefined, ""}

\* (postRes.data)?.request_id
RequestIdOf(body) == IF body.hasData THEN body.request_id ELSE Undefined

\* data?.status
StatusOf(body) == IF body.hasData THEN body.status ELSE Undefined

HasRequestId_defined(requestId) == requestId # Undefined

\* the negation of `!requestId`
HasRequestId(requestId) == Truthy(requestId)

InFlight == {"queued", "processing", "pending"}

IsTerminal_noPending(status) == Truthy(status) /\ status \notin {"queued", "processing"}

IsTerminal_notCompleted(status) == Truthy(status) /\ status \notin InFlight \cup {"completed"}

IsTerminal_absent(status) == status \notin InFlight

\* status && status !== "queued" && status !== "processing" && status !== "pending"
IsTerminal(status) == Truthy(status) /\ status \notin InFlight

LoopContinues_inclusive(attempt, maxAttempts) == attempt <= maxAttempts

\* the loop condition attempt < maxAttempts
LoopContinues(attempt, maxAttempts) == attempt < maxAttempts

TimeoutError_noId(kind, requestId) ==
    [NoError EXCEPT !.type = "PollTimeout", !.kind = kind]

\* Error(`Timed out waiting for ${kind} result (request_id=${requestId})`)
TimeoutError(kind, requestId) ==
    [NoError EXCEPT !.type = "PollTimeout", !.kind = kind, !.requestId = requestId]


----------------------------------------------------------------------------
(* One facade call: its local variables, and what it has done so far *)

NoHeaders == [XApiKey |-> <<>>, XApiSecret |-> <<>>, ContentType |-> "none"]

Headers_swapped(cfg) ==
    [XApiKey |-> cfg.apiSecret, XApiSecret |-> cfg.apiKey,
     ContentType |-> "application/json"]

\* the headers of every request
Headers(cfg) ==
    [XApiKey |-> cfg.apiKey, XApiSecret |-> cfg.apiSecret,
     ContentType |-> "application/json"]

NoRequest == [method |-> "none", endpoint |-> "none", query |-> <<>>,
              headers |-> NoHeaders, hasBody |-> FALSE]

NoResponse == [status |-> 0, contentType |-> Undefined, body |-> EmptyBody, text |-> <<>>]

\* one `key=value` part of a query string (s: a string value, n: a number value)
QueryPart(k, s, n) == [k |-> k, s |-> s, n |-> n]

UrlX == <<"x">>
UrlY == <<"y">>

\* the parameter object of a facade method: the two URL keys of
\* enrichPerson, and email for every other key
NoParams == [email |-> Unset, linkedin_url |-> Unset, phone |-> Unset,
             social_media_url |-> Unset]

IdleCall ==
    [op |-> "none", pc |-> "idle",
     passed |-> NoParams, params |-> NoParams, body |-> NoParams,
     usage |-> [month |-> JsUndefined, year |-> JsUndefined],
     hasPostRes |-> FALSE, postRes |-> EmptyBody,
     polling |-> FALSE, requestId |-> Undefined, kind |-> "none",
     intervalMs |-> 0, maxAttempts |-> 0, attempt |-> 0,
     hasRes |-> FALSE, res |-> EmptyBody,
     result |-> EmptyBody, error |-> NoError,
     req |-> NoRequest, posted |-> "none",
     hasResponse |-> FALSE, response |-> NoResponse,
     posts |-> 0, gets |-> 0, sleeps |-> 0, slept |-> 0, failures |-> 0,
     received |-> 0, debugRequests |-> 0, debugResponses |-> 0, debugPolls |-> 0]

\* options.body is set: if (body && method === "POST")
AttachBody_always(hasBody, method) == TRUE
AttachBody(hasBody, method) == hasBody /\ method = "POST"

\* request() up to fetch(url, options), log.debugRequest included: the call is
\* suspended until fetch settles
\* (hasBody: a body argument is passed)
Fetch(cfg, st, method, endpoint, query, hasBody) ==
    [st EXCEPT !.pc = IF method = "POST" THEN "post" ELSE "get",
               !.req = [method |-> method, endpoint |-> endpoint, query |-> query,
                        headers |-> Headers(cfg),
                        hasBody |-> AttachBody(hasBody, method)],
               !.posted = IF method = "POST" THEN endpoint ELSE @,
               !.posts = IF method = "POST" THEN @ + 1 ELSE @,
               !.gets = IF method = "GET" THEN @ + 1 ELSE @,
               !.debugRequests = @ + 1]

\* the response fetch resolved with
Received(st, response) ==
    [st EXCEPT !.hasResponse = TRUE, !.response = response, !.received = @ + 1]

\* request(), at its end: log.debugResponse is called when nothing was thrown
Traced(st, out) == IF out.threw THEN st ELSE [st EXCEPT !.debugResponses = @ + 1]

Returned(st, value) == [st EXCEPT !.pc = "returned", !.result = value]

Failed(st, error) == [st EXCEPT !.pc = "failed", !.error = error]

Propagate_retry(st, error) ==
    [st EXCEPT !.failures = @ + 1,
               !.posts = IF st.pc = "post" THEN @ + 1 ELSE @,
               !.gets = IF st.pc = "get" THEN @ + 1 ELSE @]

\* request() throws inside a facade method or inside the loop of
\* waitForResult: nothing catches it, the call fails with that error
Propagate(st, error) == Failed([st EXCEPT !.failures = @ + 1], error)

\* the head of the for loop of waitForResult: the next status read, or the timeout
PollLoop(cfg, st) ==
    IF LoopContinues(st.attempt, st.maxAttempts)
    THEN Fetch(cfg, st, "GET", endpointMap(st.kind),
               <<QueryPart("request_id", st.requestId, 0)>>, FALSE)
    ELSE Failed(st, TimeoutError(st.kind, st.requestId))

\* waitForResult(requestId, kind, options), up to its first suspension
waitForResult(cfg, st, requestId, kind, options) ==
    PollLoop(cfg, [st EXCEPT !.polling = TRUE, !.requestId = requestId, !.kind = kind,
                             !.intervalMs = IntervalOf(options),
                             !.maxAttempts = MaxAttemptsOf(cfg, options),
                             !.attempt = 0])

AfterSubmit_alwaysPolls(cfg, st, postRes) ==
    waitForResult(cfg, [st EXCEPT !.hasPostRes = TRUE, !.postRes = postRes],
                  RequestIdOf(postRes), KindOf(st.op), PollOptions(st.op))

\* a facade method of a job kind, after its POST has returned postRes
AfterSubmit(cfg, st, postRes) ==
    LET requestId == RequestIdOf(postRes)
        st1 == [st EXCEPT !.hasPostRes = TRUE, !.postRes = postRes]
    IN  IF ~HasRequestId(requestId) THEN Returned(st1, postRes)
        ELSE waitForResult(cfg, st1, requestId, KindOf(st.op), PollOptions(st.op))

AfterPoll_throwOnFailed(st, res) ==
    LET st1 == [st EXCEPT !.hasRes = TRUE, !.res = res]
    IN  IF StatusOf(res) = "failed"
        THEN Failed(st1, [NoError EXCEPT !.type = "JobFailed", !.kind = st.kind])
        ELSE IF IsTerminal(StatusOf(res)) THEN Returned(st1, res)
        ELSE [st1 EXCEPT !.pc = "sleep"]

AfterPoll_returnsFirst(st, res) ==
    LET st1 == [st EXCEPT !.hasRes = TRUE, !.res = res]
    IN  IF Truthy(StatusOf(res)) THEN Returned(st1, res)
        ELSE [st1 EXCEPT !.pc = "sleep"]

\* the body of the for loop, after the status read has returned res (log.debug
\* is called before the delay)
AfterPoll(st, res) ==
    LET st1 == [st EXCEPT !.hasRes = TRUE, !.res = res]
    IN  IF IsTerminal(StatusOf(res)) THEN Returned(st1, res)
        ELSE [st1 EXCEPT !.pc = "sleep", !.debugPolls = @ + 1]

AfterDelay_sameAttempt(cfg, st) ==
    PollLoop(cfg, [st EXCEPT !.sleeps = @ + 1, !.slept = @ + st.intervalMs,
                             !.hasRes = FALSE, !.res = EmptyBody,
                             !.hasResponse = FALSE, !.response = NoResponse])

\* await delay(intervalMs) is over: the next iteration
AfterDelay(cfg, st) ==
    PollLoop(cfg, [st EXCEPT !.sleeps = @ + 1, !.slept = @ + st.intervalMs,
                             !.attempt = @ + 1,
                             !.hasRes = FALSE, !.res = EmptyBody,
                             !.hasResponse = FALSE, !.response = NoResponse])

\* getUsage: the query parts of the parameters that are truthy
UsageQuery(params) ==
    (IF params.month.t = "number" /\ params.month.n # 0
     THEN <<QueryPart("month", "", params.month.n)>> ELSE <<>>)
    \o (IF params.year.t = "number" /\ params.year.n # 0
        THEN <<QueryPart("year", "", params.year.n)>> ELSE <<>>)

NoUsageParams == [month |-> JsUndefined, year |-> JsUndefined]

UsageParams ==
    {[month |-> m, year |-> y] : m \in {JsUndefined, JsNumber(0), JsNumber(3)},
                                 y \in {JsUndefined, JsNumber(0), JsNumber(2026)}}

----------------------------------------------------------------------------
(* Actions *)

\* a facade method of a job kind, from the arrival of the POST response on
SubmitOutcome(cfg, st, response) ==
    LET out == request(cfg, response)
        st1 == Traced(Received(st, response), out)
    IN  IF out.threw THEN Propagate(st1, out.error)
        ELSE AfterSubmit(cfg, st1, out.value)

\* an iteration of waitForResult, from the arrival of the GET response on
PollOutcome(cfg, st, response) ==
    LET out == request(cfg, response)
        st1 == Traced(Received(st, response), out)
    IN  IF out.threw THEN Propagate(st1, out.error)
        ELSE AfterPoll(st1, out.value)

UsageOutcome_polls(cfg, st, response) ==
    LET out == request(cfg, response)
        st1 == Received(st, response)
    IN  IF out.threw THEN Propagate(st1, out.error)
        ELSE AfterPoll(st1, out.value)

\* getUsage, from the arrival of the GET response on
UsageOutcome(cfg, st, response) ==
    LET out == request(cfg, response)
        st1 == Traced(Received(st, response), out)
    IN  IF out.threw THEN Propagate(st1, out.error)
        ELSE Returned(st1, out.value)

\* a facade method, from its call to its fetch
StartJob(cfg, st, op) ==
    Fetch(cfg, [st EXCEPT !.op = op], "POST", PostEndpoint(op), <<>>, TRUE)

\* a string value is truthy
Given(value) == value.has /\ value.s # <<>>

EnrichBody_keepsAlias(params) ==
    IF Given(params.linkedin_url) /\ ~Given(params.social_media_url)
    THEN [params EXCEPT !.social_media_url = params.linkedin_url]
    ELSE params

\* enrichPerson: const body = { ...params }, with linkedin_url moved to
\* social_media_url
EnrichBody(params) ==
    IF Given(params.linkedin_url) /\ ~Given(params.social_media_url)
    THEN [params EXCEPT !.social_media_url = params.linkedin_url,
                        !.linkedin_url = Unset]
    ELSE params

StartEnrich_inPlace(cfg, st, params) ==
    [StartJob(cfg, st, "enrichPerson") EXCEPT !.passed = params,
                                              !.params = EnrichBody(params),
                                              !.body = EnrichBody(params)]

\* enrichPerson(params), from its call to its fetch: passed is the value of
\* the caller's object when the call is made, params that object as it is
\* now, body the object passed to request
StartEnrich(cfg, st, params) ==
    [StartJob(cfg, st, "enrichPerson") EXCEPT !.passed = params,
                                              !.params = params,
                                              !.body = EnrichBody(params)]

StartUsage(cfg, st, params) ==
    Fetch(cfg, [st EXCEPT !.op = "getUsage", !.usage = params], "GET", "/usage",
          UsageQuery(params), FALSE)

----------------------------------------------------------------------------
(* Tools and slash commands *)

\* what a handler returns: a fixed text or the prefix of a failure text, the
\* error whose message follows the prefix, the serialised error of a remote
\* failure, the operations whose fields make the lines of the text, and
\* whether a details payload is attached
NoReply == [kind |-> "none", text |-> "none", error |-> NoError, message |-> <<>>,
            lines |-> {}, details |-> FALSE]

\* a slash command: its handler has not run, awaits its client calls, or
\* has replied
\* (data: what the handler found in the data mappings of its results)
NoCommand == [name |-> "none", pc |-> "idle", args |-> Unset, data |-> <<>>,
              reply |-> NoReply]

MaxLinkedinUrls == 50

\* an array parameter, by its length
NoList == [has |-> FALSE, length |-> 0]
List(n) == [has |-> TRUE, length |-> n]

\* the parameters of a tool call: the members the parameter checks read
NoToolParams ==
    [email |-> Unset, linkedin_url |-> Unset, phone |-> Unset,
     social_media_url |-> Unset, name |-> Unset, company |-> Unset, city |-> Unset,
     query |-> Unset, linkedin_urls |-> NoList]

\* a tool: execute has not run, awaits its client call, or has returned
NoTool == [name |-> "none", pc |-> "idle", params |-> NoToolParams, reply |-> NoReply]

\* the facade method each tool calls
ToolOp(name) ==
    CASE name = "nyne_enrich_person" -> "enrichPerson"
      [] name = "nyne_search_people" -> "searchPeople"
      [] name = "nyne_person_interests" -> "getPersonInterests"
      [] name = "nyne_article_search" -> "searchArticles"
      [] name = "nyne_deep_research" -> "deepResearch"
      [] name = "nyne_competitor_engagements" -> "competitorEngagements"
      [] name = "nyne_interactions" -> "getInteractions"

\* the prefix of the failure text of each tool
FailureText(name) ==
    CASE name = "nyne_enrich_person" -> "Enrichment failed: "
      [] name = "nyne_search_people" -> "Search failed: "
      [] name = "nyne_person_interests" -> "Interests analysis failed: "
      [] name = "nyne_article_search" -> "Article search failed: "
      [] name = "nyne_deep_research" -> "Deep research failed: "
      [] name = "nyne_competitor_engagements" -> "Competitor engagements failed: "
      [] name = "nyne_interactions" -> "Interactions failed: "

\* the tools that answer an empty list with a text of its own
ListTools == {"nyne_search_people", "nyne_article_search",
              "nyne_competitor_engagements", "nyne_interactions"}

EmptyText(name) ==
    CASE name = "nyne_search_people" -> "No people found matching the search criteria."
      [] name = "nyne_article_search" -> "No articles found for ${params.person_name}."
      [] name = "nyne_competitor_engagements"
           -> "No engagement activity found for the provided profiles."
      [] name = "nyne_interactions" -> "No ${params.type} found."

WhiteSpace == {" ", "\t", "\n"}

RECURSIVE trimStart(_)
trimStart(t) == IF t # <<>> /\ Head(t) \in WhiteSpace THEN trimStart(Tail(t)) ELSE t

RECURSIVE trimEnd(_)
trimEnd(t) ==
    IF t # <<>> /\ t[Len(t)] \in WhiteSpace THEN trimEnd(SubSeq(t, 1, Len(t) - 1)) ELSE t

\* String.prototype.trim
trim(t) == trimEnd(trimStart(t))

Blank_untrimmed(value) == ~value.has \/ value.s = <<>>

\* !value?.trim()
Blank(value) == ~value.has \/ trim(value.s) = <<>>

\* the parameter check at the head of execute: the text it returns, or
\* "none" when the call goes on
ParamError(name, params) ==
    CASE name = "nyne_enrich_person" ->
           IF /\ ~Given(params.email) /\ ~Given(params.linkedin_url)
              /\ ~Given(params.phone) /\ ~Given(params.social_media_url)
           THEN "Error: Provide at least one of: email, linkedin_url, phone, or social_media_url"
           ELSE "none"
      [] name = "nyne_deep_research" ->
           IF /\ ~Given(params.email) /\ ~Given(params.phone)
              /\ ~Given(params.social_media_url) /\ ~Given(params.name)
           THEN "Error: Provide at least one of: email, phone, social_media_url, or name (with company or city)"
           ELSE IF Given(params.name) /\ ~Given(params.company) /\ ~Given(params.city)
           THEN "Error: When using name, you must also provide company or city for disambiguation"
           ELSE "none"
      [] name = "nyne_search_people" ->
           IF Blank(params.query) THEN "Error: A search query is required." ELSE "none"
      [] name = "nyne_competitor_engagements" ->
           IF ~params.linkedin_urls.has \/ params.linkedin_urls.length = 0
           THEN "Error: Provide at least one LinkedIn URL"
           ELSE IF params.linkedin_urls.length > MaxLinkedinUrls
           THEN "Error: Maximum 50 LinkedIn URLs per request"
           ELSE "none"
      [] OTHER -> "none"

\* the members of params that enrichPerson reads
EnrichArgs(params) == [f \in DOMAIN NoParams |-> params[f]]

\* the members of the data mapping of a result that the client does not
\* read: its error member, and the number of entries (of recognised fields)
\* the handler finds in it
Payloads == {[error |-> e, items |-> n] : e \in {Unset, Str(<<"a">>)}, n \in {0, 1}}

\* the slash commands do not read the error member
CommandPayloads == {payload \in Payloads : ~payload.error.has}

UnknownError == <<"U", "n", "k", "n", "o", "w", "n", " ", "e", "r", "r", "o", "r">>

RemoteFailure_noData(result) == ~result.hasData

\* !data || data.status === "failed"
RemoteFailure(result) == ~result.hasData \/ result.status = "failed"

\* JSON.stringify(data?.error ?? "Unknown error")
FailureMessage(result, payload) ==
    Quoted(IF result.hasData /\ payload.error.has THEN payload.error.s
           ELSE UnknownError)

\* a property of undefined is read
TypeError == [NoError EXCEPT !.type = "TypeError"]

\* the catch block: the text made of the prefix and of err.message
Caught(text, error) ==
    [NoReply EXCEPT !.kind = "failed", !.text = text, !.error = error]

\* execute, once the client call has ended
ToolReply(name, st, payload) ==
    IF st.pc = "failed" THEN Caught(FailureText(name), st.error)
    ELSE IF RemoteFailure(st.result)
    THEN [NoReply EXCEPT !.kind = "failed", !.text = FailureText(name),
                         !.message = FailureMessage(st.result, payload)]
    ELSE IF name \in ListTools /\ payload.items = 0
    THEN [NoReply EXCEPT !.kind = "empty", !.text = EmptyText(name)]
    ELSE [NoReply EXCEPT !.kind = "result", !.text = "summary",
                         !.lines = {ToolOp(name)}, !.details = TRUE]

\* the client calls of /lookup
LookupCalls == {1, 2}

allSettled_first(calls) == \E c \in LookupCalls : calls[c].pc \in {"returned", "failed"}

\* Promise.allSettled of the two calls has resolved
allSettled(calls) == \A c \in LookupCalls : calls[c].pc \in {"returned", "failed"}

\* the text of notConfiguredHandler
SetupText == "Nyne not configured. Run 'openclaw openclaw-nyne setup' first."

\* the text a slash command answers blank arguments with
UsageText(name) ==
    CASE name = "enrich" -> "Usage: /enrich <email, LinkedIn URL, or social media URL>"
      [] name = "search"
           -> "Usage: /search <criteria> (e.g., 'CTO at Stripe in San Francisco')"
      [] name = "lookup"
           -> "Usage: /lookup <social media URL> (Twitter or Instagram preferred)"

\* the prefix of the failure text of each slash command
CommandFailureText(name) ==
    CASE name = "enrich" -> "Enrichment failed: "
      [] name = "search" -> "Search failed: "
      [] name = "lookup" -> "Lookup failed: "

\* String.prototype.startsWith
startsWith(t, prefix) ==
    Len(prefix) <= Len(t) /\ SubSeq(t, 1, Len(prefix)) = prefix

Http == <<"h", "t", "t", "p">>
LinkedinHost == <<"l", "i", "n", "k", "e", "d", "i", "n", ".", "c", "o", "m">>

\* the /enrich handler: the parameter object it builds from its input
EnrichInput(input) ==
    IF Includes(input, <<"@">>) THEN [NoParams EXCEPT !.email = Str(input)]
    ELSE IF Includes(input, LinkedinHost) \/ startsWith(input, Http)
    THEN [NoParams EXCEPT !.social_media_url = Str(input)]
    ELSE [NoParams EXCEPT !.email = Str(input)]

\* the /enrich and /search handlers, once the client call has ended: /enrich
\* reads the fields of person, which is undefined when the result has no
\* data mapping; /search reads an empty list then
CommandReply(name, st, payload) ==
    IF st.pc = "failed" THEN Caught(CommandFailureText(name), st.error)
    ELSE IF name = "enrich"
    THEN IF ~st.result.hasData THEN Caught(CommandFailureText(name), TypeError)
         ELSE [NoReply EXCEPT !.kind = "result",
                              !.text = IF payload.items > 0 THEN "lines" ELSE "JSON",
                              !.lines = {"enrichPerson"}]
    ELSE IF ~st.result.hasData \/ payload.items = 0
    THEN [NoReply EXCEPT !.kind = "empty", !.text = "No people found."]
    ELSE [NoReply EXCEPT !.kind = "result", !.text = "lines",
                         !.lines = {"searchPeople"}]

\* the lines an operation of /lookup contributes: the recognised fields of a
\* fulfilled result
LookupLines(st, payload) ==
    IF st.pc = "returned" /\ payload.items > 0 THEN {st.op} ELSE {}

\* the /lookup handler, once both calls have settled: the enrichment is
\* processed first, then the interests; a fulfilled result without a data
\* mapping makes the handler read a field of undefined
LookupReply(calls, enrichPayload, interestsPayload) ==
    IF \E c \in LookupCalls : calls[c].pc = "returned" /\ ~calls[c].result.hasData
    THEN Caught(CommandFailureText("lookup"), TypeError)
    ELSE LET lines == LookupLines(calls[1], enrichPayload)
                      \cup LookupLines(calls[2], interestsPayload)
         IN  IF lines = {}
             THEN [NoReply EXCEPT !.kind = "notFound",
                                  !.text = "Could not retrieve data for this URL."]
             ELSE [NoReply EXCEPT !.kind = "result", !.text = "lines", !.lines = lines]

\* the calls a call has made to log.debug, log.debugRequest and log.debugResponse
DebugCalls(st) == st.debugRequests + st.debugResponses + st.debugPolls

Update_shared(calls, c, st) ==
    [d \in DOMAIN calls |->
        IF d = c THEN st
        ELSE IF calls[d].polling /\ st.polling
             THEN [calls[d] EXCEPT !.requestId = st.requestId]
             ELSE calls[d]]

\* a step of call c writes the locals of that invocation only: requestId,
\* the attempt counter and the policy are parameters and locals of
\* waitForResult, not fields of the client
Update(calls, c, st) == [calls EXCEPT ![c] = st]

\* a facade method is called: it runs up to its fetch
\* the calls to the log that call c makes in a step reach the logger
Traces_ownFlag(c) ==
    logger' = IF config.debug
              THEN LogDebug_ungated(logger, DebugCalls(call'[c]) - DebugCalls(call[c]))
              ELSE logger

\* the debug lines of a step of call c go through the gate of logger.ts
Traces(c) == logger' = LogDebug(logger, DebugCalls(call'[c]) - DebugCalls(call[c]))

Start(c, ops, usageParams) ==
    /\ plugin = Ready
    /\ call[c].pc = "idle"
    /\ \E op \in ops :
          IF op = "getUsage"
          THEN \E params \in usageParams :
                  call' = Update(call, c, StartUsage(config, call[c], params))
          ELSE call' = Update(call, c, StartJob(config, call[c], op))
    /\ Traces(c)
    /\ UNCHANGED <<pluginConfig, env, api, plugin, config, command, tool>>

\* enrichPerson is called with one of the parameter objects
Enrich(c, paramsSet) ==
    /\ plugin = Ready
    /\ call[c].pc = "idle"
    /\ \E params \in paramsSet :
          call' = Update(call, c, StartEnrich(config, call[c], params))
    /\ Traces(c)
    /\ UNCHANGED <<pluginConfig, env, api, plugin, config, command, tool>>

\* the handler of /lookup, with an input that is not blank, up to its
\* await: enrichPerson and getPersonInterests are both called, each runs
\* up to its fetch, and the handler awaits Promise.allSettled of the two
LookupStarts ==
    /\ plugin = Ready
    /\ "lookup" \in api.commands /\ api.handler = "client"
    /\ command.pc = "idle" /\ tool.pc = "idle"
    /\ \A c \in LookupCalls : call[c].pc = "idle"
    /\ call' = Update(
                  Update(call, 1,
                         StartEnrich(config, call[1],
                                     [NoParams EXCEPT !.social_media_url = Str(UrlY)])),
                  2, StartJob(config, call[2], "getPersonInterests"))
    /\ logger' = LogDebug(logger, DebugCalls(call'[1]) + DebugCalls(call'[2])
                                    - DebugCalls(call[1]) - DebugCalls(call[2]))
    /\ command' = [NoCommand EXCEPT !.name = "lookup", !.pc = "awaiting",
                                    !.args = Str(UrlY)]
    /\ UNCHANGED <<pluginConfig, env, api, plugin, config, tool>>

\* Promise.allSettled resolves: the handler builds its reply and returns it
LookupReplies ==
    /\ command.name = "lookup" /\ command.pc = "awaiting"
    /\ allSettled(call)
    /\ \E enrichPayload, interestsPayload \in CommandPayloads :
          LET reply == LookupReply(call, enrichPayload, interestsPayload)
          IN  /\ command' = [command EXCEPT !.pc = "replied", !.reply = reply,
                                            !.data = <<enrichPayload, interestsPayload>>]
              /\ logger' = IF reply.kind = "failed" THEN LogError(logger) ELSE logger
    /\ UNCHANGED <<pluginConfig, env, api, plugin, config, call, tool>>

\* a slash command is invoked: the placeholder handler answers with the
\* setup instruction; the handlers of /enrich, /search and /lookup answer
\* blank arguments with their usage text; /enrich and /search go on to their
\* client call (the parameters /search parses out of its input are not
\* modelled)
CommandRuns(names, argsSet) ==
    /\ command.pc = "idle" /\ tool.pc = "idle"
    /\ \A c \in DOMAIN call : call[c].pc = "idle"
    /\ \E name \in names \cap api.commands, args \in argsSet :
          IF api.handler = "notConfiguredHandler"
          THEN /\ command' = [NoCommand EXCEPT
                                 !.name = name, !.pc = "replied", !.args = args,
                                 !.reply = [NoReply EXCEPT !.kind = "setup",
                                                           !.text = SetupText]]
               /\ UNCHANGED <<call, logger>>
          ELSE IF Blank(args)
          THEN /\ command' = [NoCommand EXCEPT
                                 !.name = name, !.pc = "replied", !.args = args,
                                 !.reply = [NoReply EXCEPT !.kind = "usage",
                                                           !.text = UsageText(name)]]
               /\ UNCHANGED <<call, logger>>
          ELSE /\ name # "lookup"
               /\ command' = [NoCommand EXCEPT !.name = name, !.pc = "awaiting",
                                                !.args = args]
               /\ call' = Update(call, 1,
                                 IF name = "enrich"
                                 THEN StartEnrich(config, call[1],
                                                  EnrichInput(trim(args.s)))
                                 ELSE StartJob(config, call[1], "searchPeople"))
               /\ Traces(1)
    /\ UNCHANGED <<pluginConfig, env, api, plugin, config, tool>>

\* the client call of /enrich or /search has ended: the handler answers
CommandReplies ==
    /\ command.name \in {"enrich", "search"} /\ command.pc = "awaiting"
    /\ call[1].pc \in {"returned", "failed"}
    /\ \E payload \in CommandPayloads :
          LET reply == CommandReply(command.name, call[1], payload)
          IN  /\ command' = [command EXCEPT !.pc = "replied", !.reply = reply,
                                            !.data = <<payload>>]
              /\ logger' = IF reply.kind = "failed" THEN LogError(logger) ELSE logger
    /\ UNCHANGED <<pluginConfig, env, api, plugin, config, call, tool>>

\* a tool is executed: the parameter check, whose failure is answered at
\* once, then log.debug and the client call
ToolExecutes(inputs) ==
    /\ tool.pc = "idle" /\ command.pc = "idle"
    /\ \A c \in DOMAIN call : call[c].pc = "idle"
    /\ \E input \in inputs :
          /\ input.name \in api.tools
          /\ IF ParamError(input.name, input.params) # "none"
             THEN /\ tool' = [name |-> input.name, pc |-> "replied",
                              params |-> input.params,
                              reply |-> [NoReply EXCEPT
                                           !.kind = "error",
                                           !.text = ParamError(input.name, input.params)]]
                  /\ UNCHANGED <<call, logger>>
             ELSE /\ tool' = [name |-> input.name, pc |-> "awaiting",
                              params |-> input.params, reply |-> NoReply]
                  /\ call' = Update(call, 1,
                                    IF input.name = "nyne_enrich_person"
                                    THEN StartEnrich(config, call[1],
                                                     EnrichArgs(input.params))
                                    ELSE StartJob(config, call[1], ToolOp(input.name)))
                  /\ logger' = LogDebug(logger, 1 + DebugCalls(call'[1])
                                                   - DebugCalls(call[1]))
    /\ UNCHANGED <<pluginConfig, env, api, plugin, config, command>>

\* the client call of the tool has ended: execute returns
ToolReturns ==
    /\ tool.pc = "awaiting"
    /\ call[1].pc \in {"returned", "failed"}
    /\ \E payload \in Payloads :
          tool' = [tool EXCEPT !.pc = "replied",
                               !.reply = ToolReply(tool.name, call[1], payload)]
    /\ logger' = IF call[1].pc = "failed" THEN LogError(logger) ELSE logger
    /\ UNCHANGED <<pluginConfig, env, api, plugin, config, call, command>>

\* fetch rejects (network failure): request() throws, and so does the call
FetchRejects(c) ==
    /\ call[c].pc \in {"post", "get"}
    /\ call' = Update(call, c, Propagate(call[c], NetworkError))
    /\ Traces(c)
    /\ UNCHANGED <<pluginConfig, env, api, plugin, config, command, tool>>

\* the response to the submission arrives
SubmitReturns(c, texts) ==
    /\ call[c].pc = "post"
    /\ \E response \in Responses(SubmitIds, SubmitStatuses, texts, texts) :
          call' = Update(call, c, SubmitOutcome(config, call[c], response))
    /\ Traces(c)
    /\ UNCHANGED <<pluginConfig, env, api, plugin, config, command, tool>>

\* the response to a status read arrives
PollReturns(c, texts) ==
    /\ call[c].pc = "get"
    /\ call[c].op \in JobOps
    /\ \E response \in Responses({call[c].requestId}, PollStatuses, texts, texts) :
          call' = Update(call, c, PollOutcome(config, call[c], response))
    /\ Traces(c)
    /\ UNCHANGED <<pluginConfig, env, api, plugin, config, command, tool>>

\* the response to the usage read arrives
UsageReturns(c, texts, pages) ==
    /\ call[c].pc = "get"
    /\ call[c].op = "getUsage"
    /\ \E response \in Responses(UsageIds, UsageStatuses, texts, pages) :
          call' = Update(call, c, UsageOutcome(config, call[c], response))
    /\ Traces(c)
    /\ UNCHANGED <<pluginConfig, env, api, plugin, config, command, tool>>

\* the timer of delay(intervalMs) fires
DelayElapses(c) ==
    /\ call[c].pc = "sleep"
    /\ call' = Update(call, c, AfterDelay(config, call[c]))
    /\ Traces(c)
    /\ UNCHANGED <<pluginConfig, env, api, plugin, config, command, tool>>

----------------------------------------------------------------------------
(* Specifications *)

\* the text the API echoes in the specification of the whole client: the API key
EchoTexts == {<<"a">>}

\* one call of any operation, for every configured poll timeout
Init ==
    /\ pluginConfig \in {[apiKey |-> Str(<<"a">>), apiSecret |-> Str(<<"E">>),
                          debug |-> JsUndefined,
                          defaultPollTimeout |-> t] : t \in RawTimeouts}
    /\ env = NoEnv
    /\ api = ToolsCommandsService(registerCli(NoApi))
    /\ plugin = Ready
    /\ config = parseConfig(pluginConfig, env).value
    /\ logger = NewClient(initLogger(DefaultLogger, "api", config.debug))
    /\ call = [c \in {1} |-> IdleCall]
    /\ command = NoCommand
    /\ tool = NoTool

Next ==
    \E c \in DOMAIN call :
        \/ Start(c, Ops, UsageParams)
        \/ FetchRejects(c)
        \/ SubmitReturns(c, EchoTexts)
        \/ PollReturns(c, EchoTexts)
        \/ UsageReturns(c, EchoTexts, EchoTexts)
        \/ DelayElapses(c)

Spec == Init /\ [][Next]_vars

\* one Transport call (the usage read), for every pair of credentials and
\* every text the API may answer with
InitTransport ==
    /\ pluginConfig \in {[apiKey |-> Str(k), apiSecret |-> Str(s),
                          debug |-> JsUndefined,
                          defaultPollTimeout |-> JsUndefined] : k \in Creds, s \in Creds}
    /\ env = NoEnv
    /\ api = ToolsCommandsService(registerCli(NoApi))
    /\ plugin = Ready
    /\ config = parseConfig(pluginConfig, env).value
    /\ logger = NewClient(initLogger(DefaultLogger, "api", config.debug))
    /\ call = [c \in {1} |-> IdleCall]
    /\ command = NoCommand
    /\ tool = NoTool

NextTransport ==
    \E c \in DOMAIN call :
        \/ Start(c, {"getUsage"}, {NoUsageParams})
        \/ FetchRejects(c)
        \/ UsageReturns(c, Texts, Pages)

SpecTransport == InitTransport /\ [][NextTransport]_vars

\* every awaited fetch settles (it resolves with a response or rejects) and
\* every timer set by delay fires
Settles(c) ==
    \/ FetchRejects(c)
    \/ SubmitReturns(c, EchoTexts)
    \/ PollReturns(c, EchoTexts)
    \/ UsageReturns(c, EchoTexts, EchoTexts)

SpecFair ==
    /\ Init
    /\ [][Next]_vars
    /\ \A c \in {1} : WF_vars(Settles(c)) /\ WF_vars(DelayElapses(c))

\* register(api), from the test of hasConfig on: the placeholder commands
\* when nothing is configured; else parseConfig, whose exception leaves
\* register, and the client
Register ==
    /\ plugin = Loaded
    /\ IF ~hasConfig(pluginConfig, env)
       THEN /\ plugin' = NotConfigured
            /\ api' = PlaceholderCommands(registerCli(api))
            /\ UNCHANGED <<config, logger>>
       ELSE LET out == parseConfig(pluginConfig, env)
            IN  IF out.threw
                THEN /\ plugin' = RegisterFailed(out.error)
                     /\ api' = registerCli(api)
                     /\ UNCHANGED <<config, logger>>
                ELSE /\ plugin' = Ready
                     /\ api' = ToolsCommandsService(registerCli(api))
                     /\ config' = out.value
                     /\ logger' = NewClient(initLogger(logger, "api", out.value.debug))
    /\ UNCHANGED <<pluginConfig, env, call, command, tool>>

\* the smoke test, up to the client: parseConfig of an object made of the
\* two variables of the environment, whose exception ends the script;
\* initLogger(console, true); new NyneClient(cfg)
SmokeTest ==
    /\ plugin = Loaded
    /\ pluginConfig' = TestConfig(env)
    /\ LET out == parseConfig(TestConfig(env), env)
       IN  IF out.threw
           THEN plugin' = RegisterFailed(out.error) /\ UNCHANGED <<config, logger>>
           ELSE /\ plugin' = Ready
                /\ config' = out.value
                /\ logger' = NewClient(initLogger(logger, "console", TRUE))
    /\ UNCHANGED <<env, api, call, command, tool>>

\* the configured values of a credential: every text of the characters of a
\* placeholder and of a one-letter variable name, and the placeholders of
\* the two variables of the README
VarV == <<"V">>
ConfigChars == {"$", "{", "}", "V"}
ConfigTexts ==
    SeqsUpTo(ConfigChars, MaxConfigLen)
    \cup {Placeholder(NYNE_API_KEY), Placeholder(NYNE_API_SECRET)}
ConfigValues == {Unset} \cup {Str(t) : t \in ConfigTexts}
FewConfigValues == {Unset, Str(<<"E">>), Str(Placeholder(NYNE_API_SECRET)),
                    Str(Placeholder(VarV))}

\* process.env: each of the three variables is unset or set
Envs ==
    {[varName \in {NYNE_API_KEY, NYNE_API_SECRET, VarV} |->
         CASE varName = NYNE_API_KEY -> k
           [] varName = NYNE_API_SECRET -> s
           [] OTHER -> v] :
        k \in {Unset, Str(<<"a", "b", "c">>)},
        s \in {Unset, Str(<<"E">>)},
        v \in {Unset, Str(<<"a">>), Str(Placeholder(VarV))}}

InitConfig ==
    /\ pluginConfig \in
          {RawConfig(k, s, JsUndefined, JsUndefined) :
              k \in ConfigValues, s \in FewConfigValues}
          \cup {RawConfig(k, s, JsUndefined, JsUndefined) :
              k \in FewConfigValues, s \in ConfigValues}
          \cup {RawConfig(Str(<<"a">>), Str(<<"E">>), d, t) :
              d \in RawDebugs, t \in RawTimeouts}
    /\ env \in Envs
    /\ api = NoApi
    /\ plugin = Loaded
    /\ config = NoConfig
    /\ logger = DefaultLogger
    /\ call = [c \in {1} |-> IdleCall]
    /\ command = NoCommand
    /\ tool = NoTool

NextConfig == Register \/ SmokeTest

SpecConfig == InitConfig /\ [][NextConfig]_vars

\* the parameter objects of enrichPerson: each URL key absent, empty or a
\* URL, with or without another key
EnrichParams ==
    {[email |-> e, linkedin_url |-> l, phone |-> Unset, social_media_url |-> m] :
        e \in {Unset, Str(<<"a">>)},
        l \in {Unset, Str(<<>>), Str(UrlX)},
        m \in {Unset, Str(<<>>), Str(UrlY)}}

InitEnrich ==
    /\ pluginConfig = RawConfig(Str(<<"a">>), Str(<<"E">>), JsUndefined, JsNumber(3))
    /\ env = NoEnv
    /\ api = ToolsCommandsService(registerCli(NoApi))
    /\ plugin = Ready
    /\ config = parseConfig(pluginConfig, env).value
    /\ logger = NewClient(initLogger(DefaultLogger, "api", config.debug))
    /\ call = [c \in {1} |-> IdleCall]
    /\ command = NoCommand
    /\ tool = NoTool

NextEnrich ==
    \E c \in DOMAIN call :
        \/ Enrich(c, EnrichParams)
        \/ FetchRejects(c)
        \/ SubmitReturns(c, EchoTexts)
        \/ PollReturns(c, EchoTexts)
        \/ DelayElapses(c)

SpecEnrich == InitEnrich /\ [][NextEnrich]_vars

\* the plugin is registered with each configured value of debug, and its
\* client then serves a call of a job kind or of the usage read
LogOps == {"searchPeople", "getUsage"}

InitLog ==
    /\ pluginConfig \in {RawConfig(Str(<<"a">>), Str(<<"E">>), d, JsNumber(3)) :
                             d \in RawDebugs}
    /\ env = NoEnv
    /\ api = NoApi
    /\ plugin = Loaded
    /\ config = NoConfig
    /\ logger = DefaultLogger
    /\ call = [c \in {1} |-> IdleCall]
    /\ command = NoCommand
    /\ tool = NoTool

NextLog ==
    \/ Register
    \/ \E c \in DOMAIN call :
          \/ Start(c, LogOps, {NoUsageParams})
          \/ FetchRejects(c)
          \/ SubmitReturns(c, EchoTexts)
          \/ PollReturns(c, EchoTexts)
          \/ UsageReturns(c, EchoTexts, EchoTexts)
          \/ DelayElapses(c)

SpecLog == InitLog /\ [][NextLog]_vars

\* initLogger is called, by register or by any other user of logger.ts
InitLoggerCalled ==
    /\ \E sink \in {"api", "console"}, debug \in BOOLEAN :
          logger' = initLogger(logger, sink, debug)
    /\ UNCHANGED <<pluginConfig, env, api, plugin, config, call, command, tool>>

\* a client built from a parsed config, as the smoke test builds it, while
\* initLogger has not been called: logger.ts is in its initial state
InitGate ==
    /\ pluginConfig \in {RawConfig(Str(<<"a">>), Str(<<"E">>), JsBoolean(d), JsNumber(3)) :
                             d \in BOOLEAN}
    /\ env = NoEnv
    /\ api = NoApi
    /\ plugin = Ready
    /\ config = parseConfig(pluginConfig, env).value
    /\ logger = NewClient(DefaultLogger)
    /\ call = [c \in {1} |-> IdleCall]
    /\ command = NoCommand
    /\ tool = NoTool

NextGate ==
    \/ InitLoggerCalled
    \/ \E c \in DOMAIN call :
          \/ Start(c, LogOps, {NoUsageParams})
          \/ FetchRejects(c)
          \/ SubmitReturns(c, EchoTexts)
          \/ PollReturns(c, EchoTexts)
          \/ UsageReturns(c, EchoTexts, EchoTexts)
          \/ DelayElapses(c)

SpecGate == InitGate /\ [][NextGate]_vars

\* the /lookup command on a registered plugin
InitLookup ==
    /\ pluginConfig = RawConfig(Str(<<"a">>), Str(<<"E">>), JsUndefined, JsNumber(3))
    /\ env = NoEnv
    /\ api = ToolsCommandsService(registerCli(NoApi))
    /\ plugin = Ready
    /\ config = parseConfig(pluginConfig, env).value
    /\ logger = NewClient(initLogger(DefaultLogger, "api", config.debug))
    /\ call = [c \in LookupCalls |-> IdleCall]
    /\ command = NoCommand
    /\ tool = NoTool

NextLookup ==
    \/ LookupStarts
    \/ LookupReplies
    \/ \E c \in DOMAIN call :
          \/ FetchRejects(c)
          \/ SubmitReturns(c, EchoTexts)
          \/ PollReturns(c, EchoTexts)
          \/ DelayElapses(c)

SpecLookup == InitLookup /\ [][NextLookup]_vars

\* the parameter objects the tools are executed with
ToolInputs ==
    {[name |-> "nyne_enrich_person",
      params |-> [NoToolParams EXCEPT !.email = e, !.linkedin_url = l, !.phone = p,
                                      !.social_media_url = m]] :
        e \in {Unset, Str(<<>>), Str(<<"a">>)}, l \in {Unset, Str(UrlX)},
        p \in {Unset, Str(<<"1">>)}, m \in {Unset, Str(UrlY)}}
    \cup {[name |-> "nyne_deep_research",
           params |-> [NoToolParams EXCEPT !.email = e, !.name = n,
                                           !.company = where[1], !.city = where[2]]] :
        e \in {Unset, Str(<<>>)}, n \in {Unset, Str(<<"n">>)},
        where \in {<<Unset, Unset>>, <<Str(<<"c">>), Unset>>, <<Unset, Str(<<"t">>)>>}}
    \cup {[name |-> "nyne_deep_research", params |-> [NoToolParams EXCEPT !.phone = Str(<<"1">>)]]}
    \cup {[name |-> "nyne_search_people", params |-> [NoToolParams EXCEPT !.query = q]] :
        q \in {Unset, Str(<<>>), Str(<<" ">>), Str(<<"x">>), Str(<<" ", "x">>)}}
    \cup {[name |-> "nyne_competitor_engagements",
           params |-> [NoToolParams EXCEPT !.linkedin_urls = urls]] :
        urls \in {NoList, List(0), List(1), List(MaxLinkedinUrls),
                  List(MaxLinkedinUrls + 1)}}
    \cup {[name |-> n, params |-> NoToolParams] :
        n \in {"nyne_person_interests", "nyne_article_search", "nyne_interactions"}}

\* the arguments the slash commands are invoked with
CommandArgs ==
    {Unset, Str(<<>>), Str(<<" ">>), Str(<<"\t", " ">>), Str(<<"x">>),
     Str(<<" ", "a", "@", "b">>), Str(Http)}

\* the plugin from its registration on: nothing configured, one credential
\* only (in the configuration, in the environment), both credentials
PluginSetups ==
    {[pluginConfig |-> RawConfig(k, sec[1], JsUndefined, JsNumber(2)),
      env |-> [NoEnv EXCEPT ![NYNE_API_SECRET] = sec[2]]] :
        k \in {Unset, Str(<<>>), Str(<<"a">>)},
        sec \in {<<Unset, Unset>>, <<Str(<<"E">>), Unset>>, <<Unset, Str(<<"E">>)>>}}

InitPlugin ==
    /\ \E setup \in PluginSetups : pluginConfig = setup.pluginConfig /\ env = setup.env
    /\ api = NoApi
    /\ plugin = Loaded
    /\ config = NoConfig
    /\ logger = DefaultLogger
    /\ call = [c \in LookupCalls |-> IdleCall]
    /\ command = NoCommand
    /\ tool = NoTool

NextPlugin ==
    \/ Register
    \/ CommandRuns(CommandNames, CommandArgs)
    \/ CommandReplies
    \/ LookupStarts
    \/ LookupReplies
    \/ ToolExecutes(ToolInputs)
    \/ ToolReturns
    \/ \E c \in DOMAIN call :
          \/ FetchRejects(c)
          \/ SubmitReturns(c, EchoTexts)
          \/ PollReturns(c, EchoTexts)
          \/ DelayElapses(c)

SpecPlugin == InitPlugin /\ [][NextPlugin]_vars

\* two calls on one client, running concurrently: the enrichment and the
\* interests lookup of one person, with a budget of two attempts
ConcurrentOps == {"enrichPerson", "getPersonInterests"}

InitConcurrent ==
    /\ pluginConfig = [apiKey |-> Str(<<"a">>), apiSecret |-> Str(<<"E">>),
                       debug |-> JsUndefined,
                       defaultPollTimeout |-> JsNumber(3)]
    /\ env = NoEnv
    /\ api = ToolsCommandsService(registerCli(NoApi))
    /\ plugin = Ready
    /\ config = parseConfig(pluginConfig, env).value
    /\ logger = NewClient(initLogger(DefaultLogger, "api", config.debug))
    /\ call = [c \in {1, 2} |-> IdleCall]
    /\ command = NoCommand
    /\ tool = NoTool

NextConcurrent ==
    \E c \in DOMAIN call :
        \/ Start(c, ConcurrentOps, {NoUsageParams})
        \/ FetchRejects(c)
        \/ SubmitReturns(c, EchoTexts)
        \/ PollReturns(c, EchoTexts)
        \/ DelayElapses(c)

SpecConcurrent == InitConcurrent /\ [][NextConcurrent]_vars


----------------------------------------------------------------------------
(* Properties *)

\* the status values that mean "still running"
StillRunning == {"queued", "processing", "pending"}

\* no status: the data mapping is missing, or has no status, or an empty one
StatusAbsent(body) == ~body.hasData \/ body.status \in {Undefined, ""}

\* C1: a job operation whose submission response carries no request_id
\* returns that response unchanged, and issues no status read at all.
C1_NoRequestIdReturnsSubmission ==
    \A c \in DOMAIN call :
        (/\ call[c].op \in JobOps
         /\ call[c].hasPostRes
         /\ (~call[c].postRes.hasData \/ call[c].postRes.request_id \in {Undefined, ""}))
        => /\ call[c].pc = "returned"
           /\ call[c].result = call[c].postRes
           /\ ~call[c].polling
           /\ call[c].posts = 1 /\ call[c].gets = 0 /\ call[c].sleeps = 0

C1_Witness ==
    /\ call[1].op = "deepResearch"
    /\ call[1].pc = "returned"
    /\ call[1].postRes.hasData /\ call[1].postRes.request_id = Undefined
    /\ call[1].postRes.status = "completed"
    /\ call[1].result = call[1].postRes

\* C2: a status read answered queued, processing or pending never makes the
\* loop return: the call sleeps, and when the sleep is over and attempts
\* remain it has slept intervalMs and issues the next status read.
C2_InFlightKeepsPolling ==
    [][\A c \in DOMAIN call :
        /\ (/\ call[c].pc = "get"
            /\ call'[c].hasRes
            /\ call'[c].res.hasData /\ call'[c].res.status \in StillRunning)
           => /\ call'[c].pc = "sleep"
              /\ call'[c].gets = call[c].gets
              /\ call'[c].result = EmptyBody
        /\ (/\ call[c].pc = "sleep"
            /\ call[c].res.hasData /\ call[c].res.status \in StillRunning
            /\ call'[c] # call[c]
            /\ call[c].attempt + 1 < call[c].maxAttempts)
           => /\ call'[c].pc = "get"
              /\ call'[c].req.method = "GET"
              /\ call'[c].gets = call[c].gets + 1
              /\ call'[c].sleeps = call[c].sleeps + 1
              /\ call'[c].slept = call[c].slept + call[c].intervalMs
    ]_vars

C2_Witness ==
    /\ call[1].polling
    /\ call[1].pc = "sleep"
    /\ call[1].res.hasData /\ call[1].res.status = "pending"
    /\ call[1].attempt = 1 /\ call[1].gets = 2 /\ call[1].sleeps = 1

\* C3: the first status read answered with a status that is present and is
\* not queued, processing or pending ends the loop: the call has returned
\* that whole response, with no read and no sleep after it.
C3_TerminalStatusReturnsResponse ==
    \A c \in DOMAIN call :
        (/\ call[c].polling
         /\ call[c].hasRes
         /\ ~StatusAbsent(call[c].res)
         /\ call[c].res.status \notin StillRunning)
        => /\ call[c].pc = "returned"
           /\ call[c].result = call[c].res
           /\ call[c].gets = call[c].attempt + 1
           /\ call[c].sleeps = call[c].attempt

C3_Witness ==
    /\ call[1].polling
    /\ call[1].pc = "returned"
    /\ call[1].res.hasData /\ call[1].res.status = "completed"
    /\ call[1].result = call[1].res
    /\ call[1].attempt = 2 /\ call[1].gets = 3 /\ call[1].sleeps = 2

C5_ExhaustedLoopTimesOut ==
    \A c \in DOMAIN call :
        (call[c].polling /\ call[c].sleeps = call[c].maxAttempts)
        => /\ call[c].pc = "failed"
           /\ call[c].gets = call[c].maxAttempts
           /\ call[c].error.type = "PollTimeout"
           /\ call[c].error.kind \in Kinds
           /\ endpointMap(call[c].error.kind) = PostEndpoint(call[c].op)
           /\ call[c].error.requestId = call[c].postRes.request_id
           /\ call[c].error.requestId \in RequestIds
           /\ call[c].result = EmptyBody

C5_Witness ==
    /\ call[1].op = "searchArticles"
    /\ call[1].pc = "failed"
    /\ call[1].error.type = "PollTimeout"
    /\ call[1].error.kind = "articlesearch"
    /\ call[1].error.requestId = "r2"
    /\ call[1].maxAttempts = 3 /\ call[1].gets = 3

\* C6: when the timeout error is raised the loop has made exactly
\* maxAttempts status reads and exactly maxAttempts sleeps, and the time
\* slept is intervalMs * maxAttempts.
C6_TimeoutAfterFullBudget ==
    \A c \in DOMAIN call :
        call[c].error.type = "PollTimeout"
        => /\ call[c].gets = call[c].maxAttempts
           /\ call[c].sleeps = call[c].maxAttempts
           /\ call[c].slept = call[c].intervalMs * call[c].maxAttempts

C6_Witness ==
    /\ call[1].op = "deepResearch"
    /\ call[1].error.type = "PollTimeout"
    /\ call[1].gets = 120 /\ call[1].sleeps = 120
    /\ call[1].slept = 600000

\* C7: a deepResearch call that polls uses an interval of 5000 ms and 120
\* attempts, whatever the configured default poll timeout is.
C7_DeepResearchPolicy ==
    \A c \in DOMAIN call :
        (call[c].op = "deepResearch" /\ call[c].polling)
        => /\ call[c].intervalMs = 5000
           /\ call[c].maxAttempts = 120

\* the configured timeout gives a larger budget than 120 * 5000 ms
C7_Witness ==
    /\ call[1].op = "deepResearch"
    /\ call[1].polling
    /\ config.defaultPollTimeout > 120 * 5000
    /\ call[1].pc = "get" /\ call[1].attempt = 119

\* the configured timeout gives a smaller budget
C7_WitnessSmaller ==
    /\ call[1].op = "deepResearch"
    /\ call[1].polling
    /\ config.defaultPollTimeout = 3000
    /\ call[1].pc = "get" /\ call[1].attempt = 119

\* C8: every other job kind polls every 2000 ms, at most
\* ceil(pollTimeoutMs / 2000) times: the least number of 2000 ms intervals
\* that covers the configured timeout, 30 for the default of 60000 ms.
C8_DefaultPolicy ==
    \A c \in DOMAIN call :
        (call[c].op \in JobOps \ {"deepResearch"} /\ call[c].polling)
        => /\ call[c].intervalMs = 2000
           /\ 2000 * call[c].maxAttempts >= config.defaultPollTimeout
           /\ 2000 * (call[c].maxAttempts - 1) < config.defaultPollTimeout
           /\ (config.defaultPollTimeout = 60000 => call[c].maxAttempts = 30)

C8_Witness ==
    /\ call[1].op = "getInteractions"
    /\ call[1].polling
    /\ pluginConfig.defaultPollTimeout = JsNumber(3)
    /\ call[1].maxAttempts = 2
    /\ call[1].error.type = "PollTimeout"

C8_WitnessDefault ==
    /\ call[1].op = "searchPeople"
    /\ call[1].polling
    /\ pluginConfig.defaultPollTimeout = JsUndefined
    /\ call[1].maxAttempts = 30 /\ call[1].attempt = 29

\* C9 (as claimed): the message of an ApiError contains no verbatim
\* occurrence of the API key or of the API secret.
C9_ApiErrorHidesCredentials ==
    \A c \in DOMAIN call :
        call[c].error.type = "ApiError"
        => /\ ~Includes(call[c].error.text, config.apiKey)
           /\ ~Includes(call[c].error.text, config.apiSecret)

\* C10 (as claimed): no error raised by Transport contains a verbatim
\* occurrence of the API key or of the API secret, the error for a
\* non-JSON response and its excerpt of the body included.
C10_NoErrorShowsCredentials ==
    \A c \in DOMAIN call :
        call[c].pc = "failed"
        => \A cred \in {config.apiKey, config.apiSecret} :
              ~Includes(call[c].error.text, cred)


TransportErrors == {"NetworkError", "NonJsonResponse", "ApiError"}

\* C11: a failure of a Transport call, on the submission or on any status
\* read, ends the operation with that failure: the call has failed once,
\* the request that failed was the last one sent (no request is issued
\* again, the loop has neither slept nor read after it) and nothing is returned.
C11_TransportFailureEndsCall ==
    \A c \in DOMAIN call :
        call[c].failures >= 1
        => /\ call[c].pc = "failed"
           /\ call[c].failures = 1
           /\ call[c].error.type \in TransportErrors
           /\ call[c].result = EmptyBody
           /\ call[c].op \in JobOps => call[c].posts = 1
           /\ (call[c].op \in JobOps /\ ~call[c].polling)
              => call[c].gets = 0 /\ call[c].sleeps = 0
           /\ call[c].polling
              => /\ call[c].gets = call[c].attempt + 1
                 /\ call[c].sleeps = call[c].attempt
                 /\ call[c].attempt < call[c].maxAttempts
           /\ call[c].op = "getUsage" => call[c].posts = 0 /\ call[c].gets = 1

C11_Witness ==
    /\ call[1].op = "enrichPerson"
    /\ call[1].polling
    /\ call[1].pc = "failed"
    /\ call[1].error.type = "ApiError"
    /\ call[1].attempt = 1 /\ call[1].gets = 2 /\ call[1].maxAttempts = 3

\* C12: a status read answered "failed" is not an error of the client: the
\* call has returned that response, with no error, as it does for "completed".
C12_FailedStatusIsAResult ==
    \A c \in DOMAIN call :
        (/\ call[c].polling
         /\ call[c].hasRes
         /\ call[c].res.hasData /\ call[c].res.status = "failed")
        => /\ call[c].pc = "returned"
           /\ call[c].result = call[c].res
           /\ call[c].result.status = "failed"
           /\ call[c].error = NoError
           /\ call[c].failures = 0

C12_Witness ==
    /\ call[1].op = "getPersonInterests"
    /\ call[1].pc = "returned"
    /\ call[1].polling
    /\ call[1].result.hasData /\ call[1].result.status = "failed"
    /\ call[1].attempt = 1

\* C13: the enrichment scenario, step by step. With request id "r1" from
\* the submission: the call has sent one POST and one GET; the first status
\* read answered "processing" puts it to sleep; when the sleep is over it has
\* slept intervalMs once and sends the second GET; the second status read
\* answered "completed" makes it return that whole response, after one
\* POST, two GETs and one sleep.
C13_EnrichmentScenario ==
    [][\A c \in DOMAIN call :
        LET st == call[c]
            st2 == call'[c]
            inScenario == /\ st.op = "enrichPerson"
                          /\ st.polling
                          /\ st.postRes.request_id = "r1"
                          /\ st.maxAttempts >= 2
        IN  /\ (inScenario /\ st.attempt = 0 /\ st.pc = "get")
               => st.posts = 1 /\ st.gets = 1 /\ st.sleeps = 0
            /\ (/\ inScenario /\ st.attempt = 0 /\ st.pc = "get"
                /\ st2.hasRes /\ st2.res.hasData /\ st2.res.status = "processing")
               => st2.pc = "sleep" /\ st2.gets = 1 /\ st2.sleeps = 0
            /\ (/\ inScenario /\ st.attempt = 0 /\ st.pc = "sleep"
                /\ st.res.hasData /\ st.res.status = "processing"
                /\ st2 # st)
               => /\ st2.pc = "get" /\ st2.attempt = 1
                  /\ st2.posts = 1 /\ st2.gets = 2 /\ st2.sleeps = 1
                  /\ st2.slept = st.intervalMs
            /\ (/\ inScenario /\ st.attempt = 1 /\ st.pc = "get"
                /\ st2.hasRes /\ st2.res.hasData /\ st2.res.status = "completed")
               => /\ st2.pc = "returned"
                  /\ st2.result = st2.res
                  /\ st2.posts = 1 /\ st2.gets = 2 /\ st2.sleeps = 1
                  /\ st2.slept = st2.intervalMs
    ]_vars

C13_Witness ==
    /\ call[1].op = "enrichPerson"
    /\ call[1].postRes.request_id = "r1"
    /\ call[1].pc = "returned"
    /\ call[1].result.hasData /\ call[1].result.status = "completed"
    /\ call[1].posts = 1 /\ call[1].gets = 2 /\ call[1].sleeps = 1
    /\ call[1].slept = 2000

\* C14: every status read of a job operation is a GET to the path the
\* operation posted to, with the query request_id=<the id its own
\* submission returned>; the kind handed to the Poller selects that path.
C14_PollSamePathOwnId ==
    \A c \in DOMAIN call :
        (call[c].op \in JobOps /\ call[c].gets >= 1)
        => /\ call[c].req.method = "GET"
           /\ call[c].req.endpoint = call[c].posted
           /\ endpointMap(call[c].kind) = call[c].posted
           /\ call[c].req.query =
                 <<QueryPart("request_id", call[c].postRes.request_id, 0)>>
           /\ call[c].postRes.request_id \in RequestIds

C14_Witness ==
    /\ call[1].op = "searchArticles"
    /\ call[1].pc = "get"
    /\ call[1].attempt = 1
    /\ call[1].posted = "/person/articlesearch"
    /\ call[1].req.endpoint = "/person/articlesearch"
    /\ call[1].req.query = <<QueryPart("request_id", "r2", 0)>>


\* the records a call in state st can move to in one step of its own, given
\* only its own record and the responses to its own request
Alone(cfg, st) ==
    CASE st.pc = "idle" ->
            {StartJob(cfg, st, op) : op \in JobOps}
            \cup {StartUsage(cfg, st, params) : params \in UsageParams}
      [] st.pc = "post" ->
            {Propagate(st, NetworkError)}
            \cup {SubmitOutcome(cfg, st, response) :
                     response \in Responses(SubmitIds, SubmitStatuses, EchoTexts, EchoTexts)}
      [] st.pc = "get" /\ st.op \in JobOps ->
            {Propagate(st, NetworkError)}
            \cup {PollOutcome(cfg, st, response) :
                     response \in Responses({st.postRes.request_id}, PollStatuses, EchoTexts, EchoTexts)}
      [] st.pc = "get" /\ st.op = "getUsage" ->
            {Propagate(st, NetworkError)}
            \cup {UsageOutcome(cfg, st, response) :
                     response \in Responses(UsageIds, UsageStatuses, EchoTexts, EchoTexts)}
      [] st.pc = "sleep" -> {AfterDelay(cfg, st)}
      [] OTHER -> {}

\* C15: calls running concurrently on one client share no state. Every
\* step changes the record of one call only, and changes it to what that
\* call could do alone, from its own record and the response to its own
\* request; a polling call reads with the request id of its own submission.
C15_CallsAreIndependent ==
    [][\A c \in DOMAIN call :
        /\ call'[c] # call[c]
           => /\ call'[c] \in Alone(config, call[c])
              /\ \A d \in DOMAIN call \ {c} : call'[d] = call[d]
        /\ call'[c].polling
           => /\ call'[c].requestId = call'[c].postRes.request_id
              /\ call'[c].gets = call'[c].attempt
                    + (IF call'[c].pc = "failed" /\ call'[c].failures = 0 THEN 0 ELSE 1)
    ]_vars

\* both calls are polling, each with its own request id and attempt counter
C15_Witness ==
    /\ DOMAIN call = {1, 2}
    /\ call[1].op = "enrichPerson" /\ call[2].op = "getPersonInterests"
    /\ call[1].pc = "sleep" /\ call[1].requestId = "r1" /\ call[1].attempt = 1
    /\ call[2].pc = "get" /\ call[2].requestId = "r2" /\ call[2].attempt = 0


Ended == {"returned", "failed"}

\* the three exits of waitForResult
PollExit(st) ==
    \/ st.pc = "returned" /\ st.result = st.res /\ IsTerminal(StatusOf(st.res))
    \/ /\ st.pc = "failed" /\ st.failures = 0
       /\ st.error = TimeoutError(st.kind, st.requestId)
       /\ st.gets = st.maxAttempts
    \/ st.pc = "failed" /\ st.failures = 1 /\ st.error.type \in TransportErrors

\* C16: every started poll loop terminates when each network call settles:
\* a call never issues more than one POST nor more than maxAttempts GETs,
\* a loop that has ended has ended by a terminal response, by the timeout
\* after maxAttempts reads or by a Transport failure, and a loop that has
\* started eventually ends.
C16_PollLoopTerminates ==
    /\ [](\A c \in DOMAIN call :
            /\ call[c].posts <= 1
            /\ call[c].polling
               => /\ call[c].gets <= call[c].maxAttempts
                  /\ call[c].pc \in Ended => PollExit(call[c]))
    /\ \A c \in {1} : (call[c].polling ~> call[c].pc \in Ended)

\* a loop that has read its whole budget of several attempts and timed out
C16_Witness ==
    \E c \in DOMAIN call :
        /\ call[c].polling /\ call[c].pc = "failed"
        /\ call[c].error.type = "PollTimeout"
        /\ call[c].gets = call[c].maxAttempts /\ call[c].gets >= 3


IsPrefix(s, t) == Len(s) <= Len(t) /\ s = SubSeq(t, 1, Len(s))

\* C17: a response whose content type is not JSON, or is missing, fails the
\* call with a NonJsonResponse error that carries the HTTP status and the
\* first 200 characters at most of the body, for a success status and for
\* a failure status alike; nothing is returned and no ApiError is raised.
C17_NonJsonFailsBeforeStatus ==
    \A c \in DOMAIN call :
        (call[c].hasResponse /\ call[c].response.contentType # "application/json")
        => /\ call[c].pc = "failed"
           /\ call[c].error.type = "NonJsonResponse"
           /\ call[c].error.status = call[c].response.status
           /\ IsPrefix(call[c].error.text, call[c].response.text)
           /\ Len(call[c].error.text) = Min(200, Len(call[c].response.text))
           /\ call[c].result = EmptyBody

\* an HTML page of more than 200 characters under a failure status
C17_Witness ==
    \E c \in DOMAIN call :
        /\ call[c].hasResponse /\ call[c].response.contentType = "text/html"
        /\ call[c].response.status = 500
        /\ Len(call[c].response.text) > 200
        /\ call[c].error.type = "NonJsonResponse"
        /\ Len(call[c].error.text) = 200

PlainCred(cred) == \A i \in 1..Len(cred) : cred[i] # "$"

C18_WitnessOk ==
    \E c \in DOMAIN call :
        /\ call[c].hasResponse /\ call[c].response.status = 200
        /\ call[c].response.body \in ErrorBodies(Texts)
        /\ call[c].pc = "returned" /\ call[c].result = call[c].response.body


\* the string values of the parts of a query string
QueryStrings(query) == {query[i].s : i \in 1..Len(query)}

NoDollar(t) == \A i \in 1..Len(t) : t[i] # "$"

\* a configured value made of one placeholder of a variable of the
\* environment, with text before and after it
Around(name) ==
    {pre \o Placeholder(name) \o post :
        pre \in {t \in SeqsUpTo(ConfigChars, 1) : NoDollar(t)},
        post \in SeqsUpTo(ConfigChars, 1)}

\* the resolved value of such a configured value
Substituted(value, name, to) ==
    LET at == CHOOSE i \in 1..Len(value) : value[i] = "$"
    IN  SubSeq(value, 1, at - 1) \o to
            \o SubSeq(value, at + Len(name) + 3, Len(value))

\* C20: a placeholder ${name} in the configured apiKey or apiSecret is
\* replaced by the value of the variable name of the environment: once the
\* config is resolved, a credential configured as a placeholder of a set
\* variable equals the value of that variable (abc for ${NYNE_API_KEY}
\* with NYNE_API_KEY=abc), with the text around the placeholder kept.
C20_PlaceholderSubstitution ==
    plugin = Ready
    => \A field \in {"apiKey", "apiSecret"} :
          \A name \in DOMAIN env :
             (/\ pluginConfig[field].has
              /\ pluginConfig[field].s \in Around(name)
              /\ env[name].has)
             => config[field] = Substituted(pluginConfig[field].s, name, env[name].s)

\* the example of the claim
C20_Witness ==
    /\ plugin = Ready
    /\ pluginConfig.apiKey = Str(Placeholder(NYNE_API_KEY))
    /\ env[NYNE_API_KEY] = Str(<<"a", "b", "c">>)
    /\ config.apiKey = <<"a", "b", "c">>

\* the same for the secret and another variable, with text after it
C20_WitnessSecret ==
    /\ plugin = Ready
    /\ pluginConfig.apiSecret = Str(Placeholder(VarV) \o <<"V">>)
    /\ env[VarV] = Str(<<"a">>)
    /\ config.apiSecret = <<"a", "V">>


\* parseConfig has been called on pluginConfig and has returned or thrown
Resolved == plugin.state \in {"ready", "failed"}

\* the name of the variable of the environment behind a field
VarOf(field) == IF field = "apiKey" THEN NYNE_API_KEY ELSE NYNE_API_SECRET

\* neither the configuration nor the environment supplies the field, or the
\* configuration supplies the empty string, or a placeholder of an unset variable
SuppliesNothing(field) ==
    LET raw == pluginConfig[field]
    IN  \/ ~raw.has /\ ~Lookup(env, VarOf(field)).has
        \/ raw.has /\ raw.s = <<>>
        \/ \E name \in DOMAIN env : raw.has /\ raw.s = Placeholder(name) /\ ~env[name].has

\* the field is supplied as a non-empty text without a placeholder, by the
\* configuration or else by the environment
SuppliesText(field) ==
    LET raw == pluginConfig[field]
        var == Lookup(env, VarOf(field))
    IN  \/ raw.has /\ raw.s # <<>> /\ NoDollar(raw.s)
        \/ ~raw.has /\ var.has /\ var.s # <<>> /\ NoDollar(var.s)

\* C21: config resolution fails with MissingCredentials whenever the apiKey
\* or the apiSecret resolves to the empty string, one of them alone being
\* enough, and returns a config only when both are non-empty; when it
\* fails there is no config and no client, and no call is ever started.
C21_MissingCredentials ==
    Resolved
    => /\ plugin.state = "failed"
          <=> \E field \in {"apiKey", "apiSecret"} :
                 Credential(pluginConfig[field], env, VarOf(field)) = <<>>
       /\ (\E field \in {"apiKey", "apiSecret"} : SuppliesNothing(field))
          => plugin.state = "failed"
       /\ (\A field \in {"apiKey", "apiSecret"} : SuppliesText(field))
          => plugin.state = "ready"
       /\ plugin.state = "failed"
          => /\ plugin.error = "MissingCredentials"
             /\ config = NoConfig
             /\ logger.info = 0
             /\ \A c \in DOMAIN call : call[c] = IdleCall
       /\ plugin.state = "ready"
          => /\ config.apiKey # <<>> /\ config.apiSecret # <<>>
             /\ logger.info = 1

\* the secret alone is empty: the key is configured, the secret is a
\* placeholder of a variable that is not set
C21_Witness ==
    /\ plugin.state = "failed"
    /\ pluginConfig.apiKey = Str(<<"V">>)
    /\ pluginConfig.apiSecret = Str(Placeholder(VarV))
    /\ ~env[VarV].has /\ env[NYNE_API_KEY].has /\ env[NYNE_API_SECRET].has

\* neither the configuration nor the environment supplies a value
C21_WitnessNeither ==
    /\ plugin.state = "failed"
    /\ ~pluginConfig.apiKey.has /\ ~pluginConfig.apiSecret.has
    /\ ~env[NYNE_API_KEY].has /\ ~env[NYNE_API_SECRET].has


\* the value of a field under the order of the claim: the configured value
\* after substitution; when it yields nothing, the variable of the same
\* name; when that is unset too, the empty string
InOrder(field) ==
    LET raw == pluginConfig[field]
        var == Lookup(env, VarOf(field))
        explicit == IF raw.has THEN resolveEnvVars(raw.s, env) ELSE <<>>
    IN  IF explicit # <<>> THEN explicit
        ELSE IF var.has THEN var.s ELSE <<>>

\* C22 (as claimed): each credential resolves to the configured value after
\* substitution, else to the variable of the same name, else to the empty
\* string: a configured value that is empty, or a placeholder of an unset
\* variable, falls back to the variable of the same name.
C22_ResolutionOrder ==
    Resolved
    => IF \A field \in {"apiKey", "apiSecret"} : InOrder(field) # <<>>
       THEN /\ plugin.state = "ready"
            /\ \A field \in {"apiKey", "apiSecret"} : config[field] = InOrder(field)
       ELSE plugin.state = "failed"


\* C23: the resolved poll timeout is in milliseconds, 1000 times the
\* configured number of seconds, and 60000 when the configured value is
\* unset or is not a number; the resolved debug flag is true only for the
\* configured boolean true.
C23_TimeoutAndDebug ==
    plugin.state = "ready"
    => /\ pluginConfig.defaultPollTimeout.t = "number"
          => config.defaultPollTimeout = 1000 * pluginConfig.defaultPollTimeout.n
       /\ pluginConfig.defaultPollTimeout.t # "number"
          => config.defaultPollTimeout = 60000
       /\ config.debug
          <=> (pluginConfig.debug.t = "boolean" /\ pluginConfig.debug.n = 1)

\* eleven seconds and the string "true"
C23_Witness ==
    /\ plugin.state = "ready"
    /\ pluginConfig.defaultPollTimeout = JsNumber(11)
    /\ pluginConfig.debug = JsString
    /\ config.defaultPollTimeout = 11000 /\ ~config.debug

\* a timeout that is not a number and the boolean true
C23_WitnessDefault ==
    /\ plugin.state = "ready"
    /\ pluginConfig.defaultPollTimeout = JsString
    /\ pluginConfig.debug = JsBoolean(TRUE)
    /\ config.defaultPollTimeout = 60000 /\ config.debug /\ logger.debugEnabled


\* C24: when enrichPerson is given a linkedin_url and no social_media_url,
\* the body it submits has social_media_url equal to that URL and no
\* linkedin_url key, and every other parameter as it was given.
C24_LinkedinAlias ==
    \A c \in DOMAIN call :
        (/\ call[c].op = "enrichPerson" /\ call[c].posts = 1
         /\ call[c].params.linkedin_url.has /\ call[c].params.linkedin_url.s # <<>>
         /\ ~call[c].params.social_media_url.has)
        => /\ call[c].posted = "/person/enrichment"
           /\ call[c].body.social_media_url = call[c].params.linkedin_url
           /\ ~call[c].body.linkedin_url.has
           /\ call[c].body.email = call[c].params.email

\* a LinkedIn URL and an email: the submission is in flight
C24_Witness ==
    \E c \in DOMAIN call :
        /\ call[c].op = "enrichPerson" /\ call[c].pc = "post"
        /\ call[c].req.hasBody
        /\ call[c].params = [email |-> Str(<<"a">>), linkedin_url |-> Str(UrlX),
                             phone |-> Unset, social_media_url |-> Unset]
        /\ call[c].body = [email |-> Str(<<"a">>), linkedin_url |-> Unset,
                           phone |-> Unset, social_media_url |-> Str(UrlX)]

\* C25 (as claimed): for every input of enrichPerson, the body it submits
\* never has both a linkedin_url key and a social_media_url key.
C25_AliasNeverSentTwice ==
    \A c \in DOMAIN call :
        (call[c].op = "enrichPerson" /\ call[c].posts = 1)
        => ~(call[c].body.linkedin_url.has /\ call[c].body.social_media_url.has)


\* C26: getUsage is a pure read: it issues one GET to /usage, without a
\* body, and no POST; it never enters the poll loop and never sleeps, and
\* it returns the response to that GET whatever status and request id the
\* response carries.
C26_UsageIsOneRead ==
    \A c \in DOMAIN call :
        (call[c].op = "getUsage" /\ call[c].pc # "idle")
        => /\ call[c].posts = 0 /\ call[c].gets = 1
           /\ call[c].req.method = "GET" /\ call[c].req.endpoint = "/usage"
           /\ ~call[c].req.hasBody
           /\ ~call[c].polling /\ call[c].sleeps = 0 /\ call[c].attempt = 0
           /\ call[c].pc \in {"get", "returned", "failed"}
           /\ call[c].pc = "returned" => call[c].result = call[c].response.body
           /\ (/\ call[c].hasResponse
               /\ call[c].response.contentType = "application/json"
               /\ call[c].response.status = 200)
              => call[c].pc = "returned"
           /\ call[c].pc = "failed" => call[c].error.type \in TransportErrors

\* the response says processing and carries a request id: it is returned
C26_Witness ==
    \E c \in DOMAIN call :
        /\ call[c].op = "getUsage" /\ call[c].pc = "returned"
        /\ StatusOf(call[c].result) = "processing"
        /\ RequestIdOf(call[c].result) = "r1"
        /\ call[c].gets = 1

\* the numbers of the parts of a query string under a key
QueryNumbers(query, key) == {query[i].n : i \in {j \in 1..Len(query) : query[j].k = key}}

\* C27 (as claimed): the query string of getUsage has month=<m> exactly
\* when a month is supplied and year=<y> exactly when a year is supplied,
\* for every number supplied, 0 included; with neither, the path is /usage
\* alone.
C27_UsageQueryIffSupplied ==
    \A c \in DOMAIN call :
        (call[c].op = "getUsage" /\ call[c].pc # "idle")
        => /\ QueryNumbers(call[c].req.query, "month")
                = (IF call[c].usage.month.t = "number"
                   THEN {call[c].usage.month.n} ELSE {})
           /\ QueryNumbers(call[c].req.query, "year")
                = (IF call[c].usage.year.t = "number"
                   THEN {call[c].usage.year.n} ELSE {})
           /\ (call[c].usage.month.t # "number" /\ call[c].usage.year.t # "number")
              => call[c].req.query = <<>>


\* C28: debug tracing is gated by the debug flag: in a step taken while the
\* flag is off, whatever calls of log.debug, log.debugRequest and
\* log.debugResponse the step makes, the debug level of the sink is not
\* called; the info, warn and error levels are called whatever the flag
\* (the constructor of the client logs at the info level).
C28_DebugIsGated ==
    [][/\ ~logger.debugEnabled => logger'.debug = logger.debug
       /\ (plugin = Loaded /\ plugin' = Ready) => logger'.info = logger.info + 1
       /\ LogInfo(logger').info = logger'.info + 1
       /\ LogWarn(logger').warn = logger'.warn + 1
       /\ LogError(logger').error = logger'.error + 1
    ]_vars

\* the flag is off (debug was configured as the string "true"): a call has
\* traced two requests, a response and a poll iteration, and the sink has
\* had the info line of the constructor only
C28_Witness ==
    /\ pluginConfig.debug = JsString
    /\ ~logger.debugEnabled
    /\ \E c \in DOMAIN call :
          /\ call[c].debugRequests = 2 /\ call[c].debugResponses >= 1
          /\ call[c].debugPolls = 1
    /\ logger.debug = 0 /\ logger.info = 1

\* C29 (as claimed): with the debug flag on, every Transport call emits the
\* trace of the request before the network call is made, and the trace of
\* the status for every response it receives, the responses that end in a
\* NonJsonResponse or ApiError error included.
C29_EveryCallTraced ==
    logger.debugEnabled
    => \A c \in DOMAIN call :
          /\ call[c].debugRequests = call[c].posts + call[c].gets
          /\ call[c].debugResponses = call[c].received
          /\ logger.debug >= call[c].debugRequests + call[c].received


\* C30: /lookup runs the enrichment and the interests lookup in parallel:
\* both submissions are sent before the response to either is received,
\* the two calls then proceed together, and the command replies only when
\* both calls have ended.
C30_LookupInParallel ==
    /\ [](command.name = "lookup"
          => /\ call[1].op = "enrichPerson" /\ call[2].op = "getPersonInterests"
             /\ \A c \in LookupCalls : call[c].posts = 1
             /\ command.pc = "replied"
                => \A c \in LookupCalls : call[c].pc \in {"returned", "failed"})
    /\ [][/\ (command.pc = "idle" /\ command'.pc # "idle")
             => \A c \in LookupCalls :
                   call'[c].pc = "post" /\ call'[c].received = 0
          /\ (command.pc # "replied" /\ command'.pc = "replied")
             => /\ \A c \in LookupCalls : call[c].pc \in {"returned", "failed"}
                /\ call' = call
       ]_vars

\* the two poll loops are interleaved: the enrichment has slept once and
\* reads again while the interests lookup is asleep after its first read
C30_Witness ==
    /\ command.name = "lookup" /\ command.pc = "awaiting"
    /\ call[1].polling /\ call[1].pc = "get" /\ call[1].attempt = 1
    /\ call[2].polling /\ call[2].pc = "sleep" /\ call[2].attempt = 0
    /\ call[1].requestId # call[2].requestId

\* the command has replied: one call returned a result, the other failed
C30_WitnessReplied ==
    /\ command.pc = "replied"
    /\ call[1].pc = "failed" /\ call[2].pc = "returned" /\ call[2].polling


\* C31: in a call of a job kind the submission is posted exactly once and
\* before every status read; a status read is issued only after the
\* response to the submission has been received and a request_id read
\* from it.
C31_SubmitOnceBeforePolling ==
    /\ [](\A c \in DOMAIN call :
            call[c].op \in JobOps
            => /\ call[c].posts = 1
               /\ call[c].pc = "post" => call[c].gets = 0 /\ call[c].received = 0
               /\ call[c].gets > 0
                  => /\ call[c].hasPostRes
                     /\ call[c].received >= 1
                     /\ HasRequestId(RequestIdOf(call[c].postRes))
                     /\ call[c].requestId = RequestIdOf(call[c].postRes))
    /\ [][\A c \in DOMAIN call :
            (call[c].op \in JobOps /\ call'[c].gets > call[c].gets)
            => /\ call'[c].posts = call[c].posts
               /\ call'[c].req.method = "GET"
               /\ call[c].pc = "post"
                  => /\ call'[c].hasPostRes /\ ~call[c].hasPostRes
                     /\ call'[c].received = 1
       ]_vars

\* the third status read of a call has been issued after one submission
C31_Witness ==
    /\ call[1].op \in JobOps
    /\ call[1].pc = "get"
    /\ call[1].gets = 3
    /\ call[1].posts = 1
    /\ call[1].posted = PostEndpoint(call[1].op)


\* C32: once waitForResult has been entered, a PollTimeout is raised only
\* after at least one status read was issued, for every poll timeout that
\* parseConfig can produce.
C32_ReadBeforeTimeout ==
    \A c \in DOMAIN call :
        (call[c].polling /\ call[c].error.type = "PollTimeout")
        => /\ call[c].maxAttempts >= 1
           /\ call[c].gets >= 1


\* C40: enrichPerson leaves the object of its caller as it was passed,
\* while the call runs and after it has returned or failed; the aliasing
\* is applied to the body only.
C40_CallerParamsUntouched ==
    /\ [](\A c \in DOMAIN call :
            call[c].op = "enrichPerson"
            => /\ call[c].params = call[c].passed
               /\ call[c].body = EnrichBody(call[c].passed))
    /\ [][\A c \in DOMAIN call :
            call[c].op = "enrichPerson"
            => call'[c].params = call[c].params /\ call'[c].passed = call[c].passed
       ]_vars

\* the call has failed after the alias was moved in the body
C40_Witness ==
    \E c \in DOMAIN call :
        /\ call[c].op = "enrichPerson" /\ call[c].pc = "failed"
        /\ call[c].params.linkedin_url = Str(UrlX)
        /\ ~call[c].params.social_media_url.has
        /\ call[c].body.social_media_url = Str(UrlX)
        /\ call[c].body # call[c].params

\* the call has returned a polled result after the alias was moved
C40_WitnessReturned ==
    \E c \in DOMAIN call :
        /\ call[c].op = "enrichPerson" /\ call[c].pc = "returned" /\ call[c].polling
        /\ call[c].params.linkedin_url = Str(UrlX)
        /\ ~call[c].body.linkedin_url.has


\* C33: when the client call of a tool returns a response without a data
\* mapping, or whose data.status is "failed", the tool answers with its
\* failure text followed by the serialised error ("Unknown error" when the
\* response names none), attaches no details and renders no result.
C33_ToolSurfacesRemoteFailure ==
    (/\ tool.pc = "replied"
     /\ call[1].pc = "returned"
     /\ ~call[1].result.hasData \/ call[1].result.status = "failed")
    => /\ tool.name \in ToolNames
       /\ tool.reply.kind = "failed"
       /\ tool.reply.text = FailureText(tool.name)
       /\ tool.reply.message \in {Quoted(UnknownError), Quoted(<<"a">>)}
       /\ ~call[1].result.hasData => tool.reply.message = Quoted(UnknownError)
       /\ tool.reply.error = NoError
       /\ ~tool.reply.details
       /\ tool.reply.lines = {}

\* the deep-research job was polled and ended with status "failed" and an
\* error of its own
C33_Witness ==
    /\ tool.name = "nyne_deep_research" /\ tool.pc = "replied"
    /\ call[1].pc = "returned" /\ call[1].polling
    /\ call[1].result.status = "failed"
    /\ tool.reply.text = "Deep research failed: "
    /\ tool.reply.message = Quoted(<<"a">>)

\* the submission of the search answered without a data mapping
C33_WitnessNoData ==
    /\ tool.name = "nyne_search_people" /\ tool.pc = "replied"
    /\ call[1].pc = "returned" /\ ~call[1].polling
    /\ ~call[1].result.hasData
    /\ tool.reply.message = Quoted(UnknownError)


\* C34: every error a client operation throws inside a tool or inside a
\* slash-command handler is caught, logged at the error level, and answered
\* with a failure text carrying the message of that error.
C34_ClientFailureBecomesReply ==
    /\ (tool.pc = "replied" /\ call[1].pc = "failed")
       => /\ tool.reply.kind = "failed"
          /\ tool.reply.error = call[1].error
          /\ logger.error >= 1
    /\ command.pc = "replied"
       => \A c \in DOMAIN call :
             call[c].pc = "failed"
             => /\ command.reply.kind = "failed"
                /\ command.reply.error = call[c].error
                /\ logger.error >= 1


\* a value that is absent, empty, or made of white space only
OnlyWhiteSpace(value) ==
    ~value.has \/ \A i \in 1..Len(value.s) : value.s[i] \in WhiteSpace

\* the parameter checks as the tools document them
FailsItsCheck(name, params) ==
    CASE name = "nyne_enrich_person" ->
           \A f \in {"email", "linkedin_url", "phone", "social_media_url"} :
               ~Given(params[f])
      [] name = "nyne_deep_research" ->
           \/ \A f \in {"email", "phone", "social_media_url", "name"} : ~Given(params[f])
           \/ Given(params.name) /\ ~Given(params.company) /\ ~Given(params.city)
      [] name = "nyne_search_people" -> OnlyWhiteSpace(params.query)
      [] name = "nyne_competitor_engagements" ->
           \/ params.linkedin_urls = NoList
           \/ params.linkedin_urls.length = 0
           \/ params.linkedin_urls.length > 50
      [] OTHER -> FALSE

NoRequestSent == \A c \in DOMAIN call : call[c] = IdleCall

\* C35: a tool call that fails its parameter check, and a slash command
\* invoked with blank arguments, send no request to the remote API and
\* answer with an error text or a usage text; a call that passes its check
\* goes on to its submission.
C35_RejectedInputSendsNothing ==
    /\ tool.pc # "idle"
       => IF FailsItsCheck(tool.name, tool.params)
          THEN /\ tool.pc = "replied"
               /\ tool.reply.kind = "error"
               /\ tool.reply.text = ParamError(tool.name, tool.params)
               /\ tool.reply.text # "none"
               /\ ~tool.reply.details
               /\ NoRequestSent
          ELSE call[1].posts = 1
    /\ (command.pc # "idle" /\ api.handler = "client")
       => IF OnlyWhiteSpace(command.args)
          THEN /\ command.pc = "replied"
               /\ command.reply.kind = "usage"
               /\ command.reply.text = UsageText(command.name)
               /\ NoRequestSent
          ELSE call[1].posts = 1

\* the competitor-engagements tool was given 51 URLs
C35_Witness ==
    /\ tool.name = "nyne_competitor_engagements" /\ tool.pc = "replied"
    /\ tool.params.linkedin_urls = List(51)
    /\ tool.reply.text = "Error: Maximum 50 LinkedIn URLs per request"
    /\ NoRequestSent

\* /lookup was invoked with white space only
C35_WitnessCommand ==
    /\ command.name = "lookup" /\ command.pc = "replied"
    /\ command.args = Str(<<"\t", " ">>)
    /\ command.reply.kind = "usage"
    /\ NoRequestSent

\* the deep-research tool was given a name without company or city
C35_WitnessName ==
    /\ tool.name = "nyne_deep_research" /\ tool.pc = "replied"
    /\ Given(tool.params.name)
    /\ tool.reply.text
         = "Error: When using name, you must also provide company or city for disambiguation"
    /\ NoRequestSent


\* an operation of /lookup contributes lines: it is fulfilled and its data
\* mapping holds a recognised field
Contributes(c) ==
    call[c].pc = "returned" /\ call[c].result.hasData /\ command.data[c].items > 0

\* C36 (as claimed): in /lookup, when exactly one of the two operations fails
\* the reply holds the fields of the other one and no error text, and the
\* reply is "Could not retrieve data for this URL." exactly when neither
\* operation contributed a line.
C36_LookupFailsIndependently ==
    (command.name = "lookup" /\ command.pc = "replied" /\ command.reply.kind # "usage")
    => /\ (\E c \in LookupCalls :
              /\ call[c].pc = "failed"
              /\ \A d \in LookupCalls \ {c} : call[d].pc = "returned")
          => /\ command.reply.kind \in {"result", "notFound"}
             /\ command.reply.error = NoError
             /\ \A c \in LookupCalls : Contributes(c) => call[c].op \in command.reply.lines
       /\ command.reply.text = "Could not retrieve data for this URL."
          <=> \A c \in LookupCalls : ~Contributes(c)


\* neither credential is in the configuration or in the environment
NothingConfigured ==
    /\ ~pluginConfig.apiKey.has /\ ~pluginConfig.apiSecret.has
    /\ \A varName \in {NYNE_API_KEY, NYNE_API_SECRET} : ~env[varName].has

Absent(field) == ~pluginConfig[field].has /\ ~Lookup(env, VarOf(field)).has

\* C38 (as claimed): when one of the key and the secret is available, from
\* the configuration or from the environment, and the other one is not,
\* register completes and leaves the plugin not configured, with the
\* placeholder commands.
C38_OneCredentialIsNotConfigured ==
    \A field, other \in {"apiKey", "apiSecret"} :
        (plugin # Loaded /\ SuppliesText(field) /\ Absent(other))
        => /\ plugin = NotConfigured
           /\ api.commands = CommandNames
           /\ api.handler = "notConfiguredHandler"


\* C39: the gate and the sink are those of the most recent initLogger call,
\* for every client: the debug lines a step of a call makes reach the sink
\* exactly when the gate is on, whatever the config.debug of the client
\* that makes the call; only initLogger changes the gate and the sink, and
\* it does so for the clients built before it as well.
C39_GateIsProcessWide ==
    [][/\ \A c \in DOMAIN call :
             LET made == DebugCalls(call'[c]) - DebugCalls(call[c])
             IN  made > 0
                 => logger'.debug
                      = logger.debug + (IF logger.debugEnabled THEN made ELSE 0)
       /\ (logger'.debugEnabled # logger.debugEnabled \/ logger'.sink # logger.sink)
          => /\ call' = call /\ config' = config
             /\ logger' \in {initLogger(logger, sink, debug) :
                               sink \in {"api", "console"}, debug \in BOOLEAN}
    ]_vars

\* a client built with debug = true has traced a request while initLogger
\* had not turned the gate on: nothing has reached the sink
C39_Witness ==
    /\ config.debug /\ ~logger.debugEnabled /\ logger.sink = "console"
    /\ call[1].debugRequests = 2 /\ call[1].debugResponses = 1
    /\ logger.debug = 0

\* a client built with debug = false, its first request traced after
\* initLogger(api, true), and the gate turned off again before the second
C39_WitnessLater ==
    /\ ~config.debug /\ ~logger.debugEnabled /\ logger.sink = "api"
    /\ call[1].debugRequests = 2
    /\ logger.debug = 1


====
